---- MODULE Spec2Model ----
(***************************************************************************)
(* A model of cve_watch's vulnerability lookup engine:                     *)
(*   - the SQLite cache of src/src/database.py (Database),                 *)
(*   - the version validator and the batch scheduler of                    *)
(*     src/src/nvd_client.py (NVDClient),                                  *)
(*   - the scan of src/src/main.py (_run_scan).                            *)
(* Python's None is the empty tuple <<>> and a present value x is <<x>>,   *)
(* so that optional columns and results keep one type.                     *)
(***************************************************************************)
EXTENDS Integers, Sequences, FiniteSets, TLC

VARIABLES
    now,            \* the wall clock (datetime.now()), in hours
    ticks,          \* how many times the clock has advanced
    cve_cache,      \* table cve_cache: its rows, in rowid order
    lookup_cache,   \* table lookup_cache: its rows (one per key)
    stored,         \* per key, the list last handed to cache_cves and when
    ret,            \* what the last Database call returned
    tx_pc,          \* cache_cves: the statement it executed last, or "idle"
    tx,             \* cache_cves: None, or its arguments and the tables as its connection sees them
    val_in,         \* _search_by_cpe: the application and the feed's raw entries
    val_out,        \* _search_by_cpe: None, or its verdicts and its result
    fetch,          \* _fetch_raw: where one call is, what it sent, slept and returned
    call,           \* VulnerableApp.max_severity: the records of the receiver and what it returned
    api_key,        \* NVDClient.api_key: None or the credential
    b_apps,         \* search_cves_batch: the applications it was given
    b_pc,           \* search_cves_batch: where the coordinating task is
    batch_start,    \* search_cves_batch: the loop variable (0-based, as in the code)
    task,           \* per application, the state and the result of its fetch
    results,        \* search_cves_batch: the dict it returns
    calls,          \* the invocations of progress_callback, in order
    requested,      \* the applications (positions) a remote request was sent for
    clk,            \* seconds since search_cves_batch was called
    starts,         \* per batch begun, the second its requests were issued
    sleeps,         \* the pauses of the scheduler that are over: their lengths
    s_apps,         \* _run_scan: what scan_all_apps() returns
    s_pc,           \* _run_scan: where the scan is
    cached_apps,    \* _run_scan: the (app, cves) pairs answered from the cache
    to_query,       \* _run_scan: the applications to ask the feed about
    vulnerable_apps,\* _run_scan: the VulnerableApp list of the result
    scan_history,   \* table scan_history: its rows
    scans,          \* the scans completed so far: what each returned and fetched
    s_hits          \* the cache hits the scan under way started with

dbvars == <<now, ticks, cve_cache, lookup_cache, stored, ret, tx_pc, tx>>
valvars == <<val_in, val_out, fetch, call>>
batchvars == <<api_key, b_apps, b_pc, batch_start, task, results, calls, requested>>
pacevars == <<clk, starts, sleeps>>
scanvars == <<s_apps, s_pc, cached_apps, to_query, vulnerable_apps, scan_history, scans, s_hits>>
vars == <<dbvars, valvars, batchvars, pacevars, scanvars>>

NoneV == <<>>
Some(x) == <<x>>

----------------------------------------------------------------------------
(* Bounds of the model. *)

\* the clock advances at most this many times
MaxTicks == 2
\* record lists handed to cache_cves have at most this many records
MaxLen == 2
\* a feed entry's applicability configuration has at most this many match rules
MaxRules == 2
\* search_cves_batch is given at most this many applications
MaxApps == 6
\* the scan runs at most this many times
MaxScans == 2
\* the paced scheduler is given at most this many applications
MaxPaceApps == 41
\* at most this many of them, from the front, have a known identity
MaxBusy == 11
\* the fetches of a batch take at most this many seconds
MaxFetch == 2
\* an answer of the feed with a malformed entry has at most this many entries
MaxEntries == 3
\* max_severity is asked about at most this many records
MaxSevs == 3

----------------------------------------------------------------------------
(* Text. A string the code takes apart (split, regular expressions) is the  *)
(* tuple of its characters.                                                 *)

S_cpe == <<"c", "p", "e">>
S_2_3 == <<"2", ".", "3">>
S_a == <<"a">>
S_star == <<"*">>
S_haxx == <<"h", "a", "x", "x">>
S_curl == <<"c", "u", "r", "l">>
S_gnu == <<"g", "n", "u">>
S_wget == <<"w", "g", "e", "t">>
S_mozilla == <<"m", "o", "z", "i", "l", "l", "a">>
S_firefox == <<"f", "i", "r", "e", "f", "o", "x">>
V_8_5_0 == <<"8", ".", "5", ".", "0">>
V_7_0 == <<"7", ".", "0">>
V_9_0_0 == <<"9", ".", "0", ".", "0">>
V_unknown == <<"u", "n", "k", "n", "o", "w", "n">>
V_120_0 == <<"1", "2", "0", ".", "0">>
D_2020_01_01 == <<"2", "0", "2", "0", "-", "0", "1", "-", "0", "1">>

N_Firefox == <<"F", "i", "r", "e", "f", "o", "x">>
N_UnknownTool == <<"U", "n", "k", "n", "o", "w", "n", "T", "o", "o", "l">>
V_121_0 == <<"1", "2", "1", ".", "0">>
V_1_0 == <<"1", ".", "0">>

UpperCase == <<"A", "B", "C", "D", "E", "F", "G", "H", "I", "J", "K", "L", "M",
               "N", "O", "P", "Q", "R", "S", "T", "U", "V", "W", "X", "Y", "Z">>
LowerCase == <<"a", "b", "c", "d", "e", "f", "g", "h", "i", "j", "k", "l", "m",
               "n", "o", "p", "q", "r", "s", "t", "u", "v", "w", "x", "y", "z">>

\* the list of the first n values of f, built element by element
RECURSIVE AsList(_, _)
AsList(f, n) == IF n = 0 THEN <<>> ELSE Append(AsList(f, n - 1), f[n])

\* str.lower(), character by character
LowerChars(n) ==
    AsList([i \in 1..Len(n) |->
               IF \E k \in 1..26 : UpperCase[k] = n[i]
               THEN LowerCase[CHOOSE k \in 1..26 : UpperCase[k] = n[i]]
               ELSE n[i]], Len(n))

\* the names of the model, and str.lower() of each, computed once
Names == { N_Firefox, S_firefox, S_curl, N_UnknownTool }
LowerTable == [n \in Names |-> LowerChars(n)]
Lower(n) == LowerTable[n]

Digits == {"0", "1", "2", "3", "4", "5", "6", "7", "8", "9"}

\* str.split(sep): the pieces between the separators, one more than there
\* are separators
RECURSIVE SplitFrom(_, _, _)
SplitFrom(s, sep, piece) ==
    IF s = <<>> THEN << piece >>
    ELSE IF Head(s) = sep THEN << piece >> \o SplitFrom(Tail(s), sep, <<>>)
    ELSE SplitFrom(Tail(s), sep, Append(piece, Head(s)))

split(s, sep) == SplitFrom(s, sep, <<>>)

\* sep.join(parts)
RECURSIVE join(_, _)
join(parts, sep) ==
    IF parts = <<>> THEN <<>>
    ELSE IF Len(parts) = 1 THEN parts[1]
    ELSE parts[1] \o << sep >> \o join(Tail(parts), sep)

\* _SEMVER_RE = ^\d+\.\d+ , matched at the start of the text
SEMVER_RE_match(s) ==
    \E k \in 1..Len(s) :
        /\ \A i \in 1..k : s[i] \in Digits
        /\ Len(s) >= k + 2
        /\ s[k + 1] = "."
        /\ s[k + 2] \in Digits

\* _DATE_RE = ^\d{4}-\d{2}-\d{2}$ ; Python's $ also matches before a final newline
DATE_RE_match(s) ==
    /\ (Len(s) = 10 \/ Len(s) = 11)
    /\ \A i \in 1..10 : (i # 5 /\ i # 8) => s[i] \in Digits
    /\ s[5] = "-" /\ s[8] = "-"
    /\ Len(s) = 11 => s[11] = "\n"

----------------------------------------------------------------------------
(* src/src/models.py *)

SeverityValues == {"NONE", "LOW", "MEDIUM", "HIGH", "CRITICAL", "UNKNOWN"}

\* CVERecord(cve_id, description, severity, score, published, last_modified,
\*           affected_versions, references)
CVERecord(id, d, sev, sc, pub, lm, av, refs) ==
    [cve_id |-> id, description |-> d, severity |-> sev, score |-> sc,
     published |-> pub, last_modified |-> lm, affected_versions |-> av,
     references |-> refs]

\* The records the model draws from: one as the normaliser produces it for a
\* feed entry with reference URLs, one with every optional field empty.
Records ==
    { CVERecord("CVE-1", "overflow", "HIGH", Some(85), Some(100), Some(101),
                <<>>, <<"https://ref/1">>),
      CVERecord("CVE-2", "", "UNKNOWN", NoneV, NoneV, NoneV, <<"1.0">>, <<>>) }

RECURSIVE SeqsUpTo(_, _)
SeqsUpTo(S, n) ==
    IF n = 0 THEN { <<>> }
    ELSE LET shorter == SeqsUpTo(S, n - 1)
         IN  shorter \cup { Append(s, x) : s \in { t \in shorter : Len(t) = n - 1 }, x \in S }

RecordLists == SeqsUpTo(Records, MaxLen)


----------------------------------------------------------------------------
(* src/src/database.py *)

CACHE_TTL_HOURS == 24 * 7

\* datetime.isoformat() / datetime.fromisoformat(): the text is not the datetime
isoformat(d) == [iso |-> d]
fromisoformat(s) == s.iso

\* json.dumps() / json.loads()
json_dumps(l) == [json |-> l]
json_loads(s) == s.json

\* Severity(value): the member whose value is the text
Severity(text) == CHOOSE s \in SeverityValues : s = text

\* The row cache_cves inserts for one record (database.py:105-116).
\* The table has no column for CVERecord.references.
cve_row(app_key, app_version, cve, at) ==
    [app_name |-> app_key, app_version |-> app_version, cve_id |-> cve.cve_id,
     description |-> cve.description,
     severity |-> cve.severity,
     score |-> cve.score,
     published |-> IF cve.published # NoneV THEN Some(isoformat(cve.published[1])) ELSE NoneV,
     last_modified |-> IF cve.last_modified # NoneV THEN Some(isoformat(cve.last_modified[1])) ELSE NoneV,
     affected_versions |-> json_dumps(cve.affected_versions),
     cached_at |-> isoformat(at)]

\* Database._row_to_cve
row_to_cve(row) ==
    CVERecord(row.cve_id,
              IF row.description # "" THEN row.description ELSE "",
              IF row.severity # "" THEN Severity(row.severity) ELSE "UNKNOWN",
              row.score,
              IF row.published # NoneV THEN Some(fromisoformat(row.published[1])) ELSE NoneV,
              IF row.last_modified # NoneV THEN Some(fromisoformat(row.last_modified[1])) ELSE NoneV,
              json_loads(row.affected_versions),
              <<>>)

SameKey_NameOnly(row, app_key, app_version) == row.app_name = app_key

\* WHERE app_name = ? AND app_version = ?
SameKey(row, app_key, app_version) ==
    row.app_name = app_key /\ row.app_version = app_version

\* nothing is deleted
DeleteKey_Nothing(rows, app_key, app_version) == rows

\* DELETE FROM <table> WHERE app_name = ? AND app_version = ?
DeleteKey(rows, app_key, app_version) ==
    SelectSeq(rows, LAMBDA r : ~SameKey(r, app_key, app_version))

\* INSERT OR REPLACE INTO cve_cache: a row with the same primary key
\* (app_name, app_version, cve_id) is deleted, the new row gets a new rowid
InsertOrReplace(rows, row) ==
    Append(SelectSeq(rows, LAMBDA r : ~(SameKey(r, row.app_name, row.app_version)
                                        /\ r.cve_id = row.cve_id)), row)

RECURSIVE InsertAll(_, _, _, _, _)
InsertAll(rows, app_key, app_version, cves, at) ==
    IF cves = <<>> THEN rows
    ELSE InsertAll(InsertOrReplace(rows, cve_row(app_key, app_version, Head(cves), at)),
                   app_key, app_version, Tail(cves), at)

\* Database.cache_cves: the cve_cache table after the call
cache_cves_rows(cc, app_name, app_version, cves, at) ==
    InsertAll(DeleteKey(cc, Lower(app_name), app_version),
              Lower(app_name), app_version, cves, at)

\* Database.cache_cves: the lookup_cache table after the call
cache_cves_lookup(lc, app_name, app_version, at) ==
    { r \in lc : ~SameKey(r, Lower(app_name), app_version) }
        \cup { [app_name |-> Lower(app_name), app_version |-> app_version,
                cached_at |-> isoformat(at)] }

\* a day's worth of hours taken for the week's
Expired_OneDay(cached_at, at) == at - cached_at > 24

\* the age test of get_cached_cves (database.py:75)
Expired(cached_at, at) == at - cached_at > CACHE_TTL_HOURS

\* Database.get_cached_cves: None, or the list of the key's records
get_cached_cves(cc, lc, app_name, app_version, at) ==
    LET hit == { r \in lc : SameKey(r, Lower(app_name), app_version) }
    IN  IF hit = {} THEN NoneV
        ELSE LET row == CHOOSE r \in hit : TRUE
                 cached_at == fromisoformat(row.cached_at)
             IN  IF Expired(cached_at, at) THEN NoneV
                 ELSE LET rows == SelectSeq(cc, LAMBDA r : SameKey(r, Lower(app_name), app_version))
                      IN  Some(AsList([i \in 1..Len(rows) |-> row_to_cve(rows[i])], Len(rows)))

----------------------------------------------------------------------------
(* src/src/nvd_client.py: the identity table and the version validator *)

CVE_MAX_AGE_YEARS == 4

\* APP_NAME_MAP, the entries for the names of the model
MappedNames == {S_firefox, S_curl}

APP_NAME_MAP ==
    [n \in MappedNames |->
        IF n = S_firefox THEN <<S_mozilla, S_firefox>> ELSE <<S_haxx, S_curl>>]

\* APP_NAME_MAP.get(name)
APP_NAME_MAP_get(name) ==
    IF name \in DOMAIN APP_NAME_MAP THEN Some(APP_NAME_MAP[name]) ELSE NoneV

InstalledApp(name, version) ==
    [name |-> name, version |-> version, source |-> "applications",
     bundle_id |-> NoneV, path |-> NoneV]

\* NVDClient.has_known_cpe
has_known_cpe(app) == Lower(app.name) \in DOMAIN APP_NAME_MAP

\* One cpeMatch entry of the feed: criteria is its text ("" when the key is
\* missing); vulnerable is None when the key is missing; the four boundaries
\* are versionStartIncluding, versionStartExcluding, versionEndIncluding,
\* versionEndExcluding, each None when missing.
CpeMatch(criteria, vulnerable, vsi, vse, vei, vee) ==
    [criteria |-> criteria, vulnerable |-> vulnerable,
     boundaries |-> <<vsi, vse, vei, vee>>]

\* match.get("vulnerable", False), as a condition
IsVulnerable(match) == match.vulnerable = Some(TRUE)

\* any(b is not None for b in boundaries)
has_boundaries(match) == \E i \in 1..4 : match.boundaries[i] # NoneV

\* some boundary has the shape of a date (nvd_client.py:247-248)
HasDateBoundary(match) ==
    \E i \in 1..4 : /\ match.boundaries[i] # NoneV
                    /\ match.boundaries[i][1] # <<>>
                    /\ DATE_RE_match(match.boundaries[i][1])

\* an entry without configurations is dropped
NoConfigApplies_Drop == FALSE

\* what the validator answers for an entry without configurations
\* (nvd_client.py:207-208)
NoConfigApplies == TRUE

\* the date guard left out
WildcardApplies_NoGuard(match, installed_version) == TRUE

\* a rule with a boundary does not apply
WildcardApplies_RangeRejects(match, installed_version) == ~has_boundaries(match)

\* the answer of a vulnerable wildcard rule (nvd_client.py:234-255)
WildcardApplies(match, installed_version) ==
    IF ~has_boundaries(match) THEN TRUE
    ELSE IF SEMVER_RE_match(installed_version) /\ HasDateBoundary(match) THEN FALSE
    ELSE TRUE

\* the loops over configs, nodes and cpeMatch visit the rules in this order
RECURSIVE FlattenNodes(_)
FlattenNodes(nodes) ==
    IF nodes = <<>> THEN <<>> ELSE Head(nodes).cpeMatch \o FlattenNodes(Tail(nodes))

RECURSIVE FlattenConfigs(_)
FlattenConfigs(configs) ==
    IF configs = <<>> THEN <<>>
    ELSE FlattenNodes(Head(configs).nodes) \o FlattenConfigs(Tail(configs))

\* the body of the innermost loop, from the rule at the head on
\* (nvd_client.py:217-255), and the two returns after the loops (257-260)
OtherProduct_Never(parts, vendor, product) == FALSE

\* cpe_vendor != vendor or cpe_product != product (nvd_client.py:222): the
\* rule is about something else
OtherProduct(parts, vendor, product) == parts[4] # vendor \/ parts[5] # product

AfterLoops_True(found_vendor_product, explicitly_not_vulnerable) == TRUE

\* what _cve_affects_version returns when the loops end without a return
\* (nvd_client.py:257-260)
AfterLoops(found_vendor_product, explicitly_not_vulnerable) ==
    ~(found_vendor_product /\ explicitly_not_vulnerable)

RECURSIVE ScanRules(_, _, _, _, _, _)
ScanRules(rules, vendor, product, installed_version, found_vendor_product, explicitly_not_vulnerable) ==
    IF rules = <<>>
    THEN AfterLoops(found_vendor_product, explicitly_not_vulnerable)
    ELSE LET match == Head(rules)
             parts == split(match.criteria, ":")
             skip == ScanRules(Tail(rules), vendor, product, installed_version,
                               found_vendor_product, explicitly_not_vulnerable)
         IN  IF Len(parts) < 6 THEN skip
             ELSE IF OtherProduct(parts, vendor, product) THEN skip
             ELSE IF ~IsVulnerable(match)
                  THEN ScanRules(Tail(rules), vendor, product, installed_version, TRUE, TRUE)
             ELSE IF parts[6] = installed_version THEN TRUE
             ELSE IF parts[6] = S_star THEN WildcardApplies(match, installed_version)
             ELSE ScanRules(Tail(rules), vendor, product, installed_version,
                            TRUE, explicitly_not_vulnerable)

\* NVDClient._cve_affects_version; cve_data.configurations is None when the
\* entry has no such key
cve_affects_version(cve_data, vendor, product, installed_version) ==
    IF cve_data.configurations = NoneV \/ cve_data.configurations[1] = <<>>
    THEN NoConfigApplies
    ELSE ScanRules(FlattenConfigs(cve_data.configurations[1]), vendor, product,
                   installed_version, FALSE, FALSE)

\* NVDClient._parse_date of the feed's text
parse_date(date_str) == IF date_str = NoneV THEN NoneV ELSE Some(fromisoformat(date_str[1]))

\* the reference URLs kept: the non-empty ones, the first five of them
\* (nvd_client.py:283-287)
reference_urls(refs) ==
    LET urls == SelectSeq(refs, LAMBDA u : u # "")
    IN  SubSeq(urls, 1, IF Len(urls) < 5 THEN Len(urls) ELSE 5)

\* NVDClient._parse_response of entries that carry an id, a published date,
\* references and configurations: no descriptions, no metrics, no lastModified
parse_response(vulnerabilities) ==
    AsList([i \in 1..Len(vulnerabilities) |->
               CVERecord(vulnerabilities[i].cve.id, "", "UNKNOWN", NoneV,
                         parse_date(vulnerabilities[i].cve.published), NoneV, <<>>,
                         reference_urls(vulnerabilities[i].cve.references))],
           Len(vulnerabilities))

\* NVDClient._filter_old_cves, at time `at`
filter_old_cves(cves, at) ==
    SelectSeq(cves, LAMBDA c : \/ c.published = NoneV
                               \/ c.published[1] >= at - CVE_MAX_AGE_YEARS * 365 * 24)

\* NVDClient._search_by_cpe from the feed's answer on (nvd_client.py:148-161):
\* the entries the validator keeps
validate_all(raw_vulns, vendor, product, version) ==
    SelectSeq(raw_vulns, LAMBDA v : cve_affects_version(v.cve, vendor, product, version))

\* JSON null where the feed should give a text: no text (a tuple of
\* characters) equals it
JsonNull == <<"null">>

\* match.get("criteria", "").split(":") raises AttributeError when the key
\* is present with the value null (nvd_client.py:218)
criteria_split_raises(match) == match.criteria = JsonNull

\* the loop of _cve_affects_version raises: it reaches a rule whose criteria
\* is null before it returns
RECURSIVE ScanRaises(_, _, _, _)
ScanRaises(rules, vendor, product, installed_version) ==
    IF rules = <<>> THEN FALSE
    ELSE LET match == Head(rules)
             parts == split(match.criteria, ":")
             skip == ScanRaises(Tail(rules), vendor, product, installed_version)
         IN  IF criteria_split_raises(match) THEN TRUE
             ELSE IF Len(parts) < 6 THEN skip
             ELSE IF OtherProduct(parts, vendor, product) THEN skip
             ELSE IF ~IsVulnerable(match) THEN skip
             ELSE IF parts[6] = installed_version THEN FALSE
             ELSE IF parts[6] = S_star THEN FALSE
             ELSE skip

\* NVDClient._cve_affects_version raises
cve_affects_version_raises(cve_data, vendor, product, installed_version) ==
    /\ cve_data.configurations # NoneV
    /\ ScanRaises(FlattenConfigs(cve_data.configurations[1]), vendor, product,
                  installed_version)

\* the loop over raw_vulns of _search_by_cpe (nvd_client.py:148-157) raises:
\* it has no try, so one entry that raises ends it
validate_raises(raw_vulns, vendor, product, version) ==
    \E i \in 1..Len(raw_vulns) :
        cve_affects_version_raises(raw_vulns[i].cve, vendor, product, version)

----------------------------------------------------------------------------
(* src/src/nvd_client.py: the remote client and the batch scheduler *)

BATCH_SIZE_NO_KEY == 5
BATCH_SIZE_WITH_KEY == 40

\* NVDClient.__init__: self.batch_size
batch_size(key) == IF key # NoneV THEN BATCH_SIZE_WITH_KEY ELSE BATCH_SIZE_NO_KEY

\* seconds
BATCH_WINDOW == 31
BATCH_WINDOW_WITH_KEY == 31

batch_window_Short(key) == BATCH_WINDOW - 1

\* NVDClient.__init__: self.batch_window
batch_window(key) == IF key # NoneV THEN BATCH_WINDOW_WITH_KEY ELSE BATCH_WINDOW

MoreBatches_Inclusive(start, size, total) == start + size <= total

\* search_cves_batch: another batch follows the one that starts at start
MoreBatches(start, size, total) == start + size < total

\* f"{app.name}:{app.version}"
ResultKey(app) == app.name \o <<":">> \o app.version

\* What the feed does with one request: it answers 200 with entries, answers
\* 403 or another status, the transport times out or cannot connect, or
\* something else goes wrong (an error _fetch_raw does not catch).
Response(kind, vulns) == [kind |-> kind, vulns |-> vulns]

\* seconds: await asyncio.sleep(30) after a 403
RATE_LIMIT_COOLDOWN == 30

fetch_raises_Transport(response) == response.kind = "error" \/ response.kind = "timeout"

\* _fetch_raw raises: only on an error it does not catch (nvd_client.py:192)
fetch_raises(response) == response.kind = "error"

\* NVDClient._fetch_raw: the raw entries it returns
fetch_raw(response) ==
    IF response.kind = "200" THEN response.vulns ELSE <<>>

\* NVDClient._search_by_cpe for a known identity, given the feed's response
search_by_cpe(app, mapping, response, at) ==
    filter_old_cves(
        parse_response(validate_all(fetch_raw(response), mapping[1], mapping[2], app.version)),
        at)

\* the state of a fetch; answer is what the feed did with its request ("" as
\* long as it did nothing, and for a fetch that sends no request)
Pending == [st |-> "pending", result |-> <<>>, answer |-> ""]
InFlight == [st |-> "in_flight", result |-> <<>>, answer |-> ""]
Done(result) == [st |-> "done", result |-> result, answer |-> ""]
Raised == [st |-> "raised", result |-> <<>>, answer |-> ""]

Resolved(t) == t.st = "done" \/ t.st = "raised"

\* every remaining application in one batch
BatchOf_Rest(apps, start, size) ==
    { i \in 1..Len(apps) : start < i }

\* the positions (1-based) of the batch that starts at batch_start
BatchOf(apps, start, size) ==
    { i \in 1..Len(apps) : start < i /\ i <= start + size }

\* gather waits for one fetch only
AnyResolved(tasks, batch) == \E i \in batch : Resolved(tasks[i])

\* asyncio.gather(*tasks): every fetch of the batch has resolved
AllResolved(tasks, batch) == \A i \in batch : Resolved(tasks[i])

\* gather(...) without return_exceptions
ReturnExceptions_Off == FALSE

\* gather(..., return_exceptions=True)
ReturnExceptions == TRUE

\* what the loop stores for one application (nvd_client.py:114-118)
ResultOf(t) == IF t.st = "raised" THEN <<>> ELSE t.result

\* batch.index(app): the first position (0-based) in the batch of an
\* application equal to app
batch_index(apps, start, i) ==
    (CHOOSE p \in (start + 1)..i :
        /\ apps[p] = apps[i]
        /\ \A q \in (start + 1)..(p - 1) : apps[q] # apps[i]) - start - 1

\* a dict, as the sequence of its (key, value) items in insertion order
dict_keys(d) == { d[j][1] : j \in 1..Len(d) }

\* d.get(k, []) and d[k] for a key the dict holds
dict_get(d, k) ==
    IF k \in dict_keys(d) THEN (CHOOSE item \in { d[j] : j \in 1..Len(d) } : item[1] = k)[2]
    ELSE <<>>

\* d[k] = v: a key the dict holds keeps its place
dict_set(d, k, v) ==
    IF k \in dict_keys(d)
    THEN AsList([j \in 1..Len(d) |-> IF d[j][1] = k THEN <<k, v>> ELSE d[j]], Len(d))
    ELSE Append(d, <<k, v>>)

\* the loop over zip(batch, batch_results), from position i to position hi
\* (nvd_client.py:112-122): the dict and the callback's invocations after it
\* (the test on the lengths has the accumulator computed at every step)
RECURSIVE ProcessBatch(_, _, _, _, _, _)
ProcessBatch(apps, tasks, start, i, hi, acc) ==
    IF i > hi THEN acc
    ELSE LET next == [results |-> dict_set(acc.results, ResultKey(apps[i]), ResultOf(tasks[i])),
                      calls |-> Append(acc.calls,
                                       [completed |-> start + batch_index(apps, start, i) + 1,
                                        total |-> Len(apps),
                                        name |-> apps[i].name])]
         IN  IF Len(next.calls) = Len(acc.calls) + 1
             THEN ProcessBatch(apps, tasks, start, i + 1, hi, next)
             ELSE acc

----------------------------------------------------------------------------
(* The cache on its own: stores, lookups and the passing of time. *)

\* (name, version) pairs the cache is asked about, and those it is given
\* records for: one name in two spellings, one spelling in two versions
CacheInputs ==
    { <<N_Firefox, V_120_0>>, <<S_firefox, V_120_0>>, <<S_firefox, V_121_0>> }

StoreInputs == { <<N_Firefox, V_120_0>>, <<S_firefox, V_121_0>> }

CacheKeys == { <<Lower(a[1]), a[2]>> : a \in CacheInputs }

\* no call of max_severity
NoCall == [cves |-> <<>>, out |-> NoneV]

\* no call of _fetch_raw under way
NoFetch == [pc |-> "idle", body |-> <<>>, sent |-> 0, slept |-> 0, status |-> "", ret |-> NoneV]

\* the validator at rest
NoOut == [done |-> FALSE, raised |-> FALSE, validated |-> <<>>, result |-> NoneV]
ValIdle ==
    /\ val_in = [app |-> InstalledApp(S_curl, <<>>), raw_vulns |-> <<>>]
    /\ val_out = NoOut
    /\ call = NoCall
    /\ fetch = NoFetch

\* the scheduler at rest
BatchIdle ==
    /\ api_key = NoneV
    /\ b_apps = <<>>
    /\ b_pc = "idle"
    /\ batch_start = 0
    /\ task = <<>>
    /\ results = <<>>
    /\ calls = <<>>
    /\ requested = {}
    /\ clk = 0
    /\ starts = <<>>
    /\ sleeps = <<>>

\* the scan at rest
ScanIdle ==
    /\ s_apps = <<>>
    /\ s_pc = "idle"
    /\ cached_apps = <<>>
    /\ to_query = <<>>
    /\ vulnerable_apps = <<>>
    /\ scan_history = <<>>
    /\ scans = <<>>
    /\ s_hits = <<>>

NoRet == [op |-> "none", name |-> <<>>, version |-> <<>>, value |-> NoneV]

DbInit ==
    /\ now = 0
    /\ ticks = 0
    /\ cve_cache = <<>>
    /\ lookup_cache = {}
    /\ stored = [k \in CacheKeys |-> NoneV]
    /\ ret = NoRet
    /\ tx_pc = "idle"
    /\ tx = NoneV

\* time passes: by an hour, or by an hour less than the TTL
TickSteps == {1, CACHE_TTL_HOURS - 1}

Tick(d) ==
    /\ ticks < MaxTicks
    /\ ticks' = ticks + 1
    /\ now' = now + d
    /\ ret' = NoRet
    /\ UNCHANGED <<cve_cache, lookup_cache, stored, tx_pc, tx>>
    /\ UNCHANGED <<valvars, batchvars, pacevars, scanvars>>

\* db.cache_cves(name, version, cves)
Store(name, version, cves) ==
    /\ cve_cache' = cache_cves_rows(cve_cache, name, version, cves, now)
    /\ lookup_cache' = cache_cves_lookup(lookup_cache, name, version, now)
    /\ stored' = [stored EXCEPT ![<<Lower(name), version>>] = Some([cves |-> cves, at |-> now])]
    /\ ret' = NoRet
    /\ UNCHANGED <<now, ticks, tx_pc, tx>>
    /\ UNCHANGED <<valvars, batchvars, pacevars, scanvars>>

\* db.get_cached_cves(name, version)
Lookup(name, version) ==
    /\ ret' = [op |-> "lookup", name |-> name, version |-> version,
               value |-> get_cached_cves(cve_cache, lookup_cache, name, version, now)]
    /\ UNCHANGED <<now, ticks, cve_cache, lookup_cache, stored, tx_pc, tx>>
    /\ UNCHANGED <<valvars, batchvars, pacevars, scanvars>>

CacheNext ==
    \/ \E d \in TickSteps : Tick(d)
    \/ \E a \in StoreInputs, cves \in RecordLists : Store(a[1], a[2], cves)
    \/ \E a \in CacheInputs : Lookup(a[1], a[2])

CacheInit == DbInit /\ ValIdle /\ BatchIdle /\ ScanIdle

SpecCache == CacheInit /\ [][CacheNext]_vars

\* the key the last Database call was about, and what was last stored under it
RetKey == <<Lower(ret.name), ret.version>>
RetStored == stored[RetKey][1]
LookedUpStored == ret.op = "lookup" /\ stored[RetKey] # NoneV

\* C1 (as claimed): a lookup made after store(name, version, R) and within the
\* TTL returns found with exactly the records R, every field of every record
\* preserved, references included.
C1_RoundTripAllFields ==
    (LookedUpStored /\ now - RetStored.at < CACHE_TTL_HOURS)
        => ret.value = Some(RetStored.cves)

\* the TTL the claims name: 7 days, in hours
SevenDays == 7 * 24

\* C2: an entry stored at time t and not rewritten is found by every lookup
\* made before t + TTL and not found by every lookup made after t + TTL.
C2_TTLExpiry ==
    LookedUpStored =>
        /\ (now < RetStored.at + SevenDays) => ret.value # NoneV
        /\ (now > RetStored.at + SevenDays) => ret.value = NoneV

\* C2's case: a lookup after t + TTL of an entry stored at t reported it not
\* found.
C2_Witness ==
    /\ LookedUpStored
    /\ now > RetStored.at + SevenDays
    /\ ret.value = NoneV

\* a step that stores under key k, which already holds an entry
StoresAgain(k) == stored[k] # NoneV /\ stored'[k] # stored[k]

\* the timestamp row of key k
TimestampRows(lc, k) == { row \in lc : SameKey(row, k[1], k[2]) }

\* C13 (as claimed): when store(n, v, R2) follows store(n, v, R1), a lookup
\* of (n, v) returns exactly the records of R2, the entry carries the time of
\* the second store, and when R2 is R1 the lookup returns what it returned
\* after the first store.
C13_StoreReplaces ==
    [][\A k \in CacheKeys :
          StoresAgain(k) =>
              /\ get_cached_cves(cve_cache', lookup_cache', k[1], k[2], now')
                     = Some(stored'[k][1].cves)
              /\ \A row \in TimestampRows(lookup_cache', k) :
                     row.cached_at = isoformat(stored'[k][1].at)
              /\ (stored'[k][1].cves = stored[k][1].cves
                     /\ ~Expired(stored[k][1].at, now))
                   => get_cached_cves(cve_cache', lookup_cache', k[1], k[2], now')
                          = get_cached_cves(cve_cache, lookup_cache, k[1], k[2], now)]_vars

\* C15: a lookup of a key that was never stored returns None, whatever was
\* stored for other keys; a lookup, within the TTL, of a key stored with the
\* empty list returns the empty list, which is not None.
C15_AbsentVersusEmpty ==
    ret.op = "lookup" =>
        /\ stored[RetKey] = NoneV => ret.value = NoneV
        /\ (stored[RetKey] # NoneV /\ RetStored.cves = <<>>
               /\ now - RetStored.at <= CACHE_TTL_HOURS)
             => (ret.value = Some(<<>>) /\ ret.value # NoneV)

\* a lookup of a key never stored returned None while another key was
\* stored with the empty list
C15_Witness ==
    /\ ret.op = "lookup"
    /\ stored[RetKey] = NoneV
    /\ ret.value = NoneV
    /\ \E k \in CacheKeys : stored[k] # NoneV /\ stored[k][1].cves = <<>>

\* C21 (as claimed): an entry is valid for reads only while now - cachedAt
\* is less than the TTL of 7 days: a lookup made when now - cachedAt is the
\* TTL exactly, or more, reports the entry as not found.
C21_TTLBoundaryStrict ==
    (LookedUpStored /\ now - RetStored.at >= SevenDays) => ret.value = NoneV

----------------------------------------------------------------------------
(* cache_cves statement by statement. The connection is opened by          *)
(* sqlite3.connect(path) with the default isolation_level (database.py:19): *)
(* sqlite3 opens a transaction before the first DELETE and the statements   *)
(* reach the database file, where another connection or the next run of the *)
(* program reads them, at conn.commit() (database.py:123). cve_cache and    *)
(* lookup_cache are the tables as the file holds them; tx holds them as the *)
(* writing connection sees them.                                            *)

Autocommit_On == TRUE

\* the connection commits every statement on its own
Autocommit == FALSE

\* what the file holds after a statement of an open transaction
Durable(committed, working) == IF Autocommit THEN working ELSE committed

\* the lists handed to cache_cves here: no record twice
TxLists ==
    { l \in RecordLists : \A i, j \in 1..Len(l) : i # j => l[i] # l[j] }

\* cache_cves is called: now and app_key are computed and the first DELETE
\* runs (database.py:87-93)
TxDeleteRecords(name, version, cves) ==
    /\ tx_pc = "idle"
    /\ LET cc == DeleteKey(cve_cache, Lower(name), version)
       IN  /\ tx' = Some([app_key |-> Lower(name), app_version |-> version,
                          cves |-> cves, at |-> now, i |-> 1,
                          cc |-> cc, lc |-> lookup_cache])
           /\ cve_cache' = Durable(cve_cache, cc)
    /\ tx_pc' = "delete_cve_cache"
    /\ ret' = NoRet
    /\ UNCHANGED <<now, ticks, lookup_cache, stored>>
    /\ UNCHANGED <<valvars, batchvars, pacevars, scanvars>>

\* the second DELETE (database.py:94-97)
TxDeleteTimestamp ==
    /\ tx_pc = "delete_cve_cache"
    /\ LET lc == { r \in tx[1].lc : ~SameKey(r, tx[1].app_key, tx[1].app_version) }
       IN  /\ tx' = Some([tx[1] EXCEPT !.lc = lc])
           /\ lookup_cache' = Durable(lookup_cache, lc)
    /\ tx_pc' = "delete_lookup_cache"
    /\ UNCHANGED <<now, ticks, cve_cache, stored, ret>>
    /\ UNCHANGED <<valvars, batchvars, pacevars, scanvars>>

\* one iteration of the loop over cves (database.py:99-117)
TxInsertRecord ==
    /\ tx_pc = "delete_lookup_cache" \/ tx_pc = "insert_cve_cache"
    /\ tx[1].i <= Len(tx[1].cves)
    /\ LET cc == InsertOrReplace(tx[1].cc,
                     cve_row(tx[1].app_key, tx[1].app_version, tx[1].cves[tx[1].i], tx[1].at))
       IN  /\ tx' = Some([tx[1] EXCEPT !.cc = cc, !.i = @ + 1])
           /\ cve_cache' = Durable(cve_cache, cc)
    /\ tx_pc' = "insert_cve_cache"
    /\ UNCHANGED <<now, ticks, lookup_cache, stored, ret>>
    /\ UNCHANGED <<valvars, batchvars, pacevars, scanvars>>

\* the INSERT into lookup_cache after the loop (database.py:119-122)
TxInsertTimestamp ==
    /\ tx_pc = "delete_lookup_cache" \/ tx_pc = "insert_cve_cache"
    /\ tx[1].i > Len(tx[1].cves)
    /\ LET lc == tx[1].lc \cup { [app_name |-> tx[1].app_key,
                                  app_version |-> tx[1].app_version,
                                  cached_at |-> isoformat(tx[1].at)] }
       IN  /\ tx' = Some([tx[1] EXCEPT !.lc = lc])
           /\ lookup_cache' = Durable(lookup_cache, lc)
    /\ tx_pc' = "insert_lookup_cache"
    /\ UNCHANGED <<now, ticks, cve_cache, stored, ret>>
    /\ UNCHANGED <<valvars, batchvars, pacevars, scanvars>>

\* self.conn.commit() (database.py:123): cache_cves returns
TxCommit ==
    /\ tx_pc = "insert_lookup_cache"
    /\ cve_cache' = tx[1].cc
    /\ lookup_cache' = tx[1].lc
    /\ stored' = [stored EXCEPT ![<<tx[1].app_key, tx[1].app_version>>] =
                     Some([cves |-> tx[1].cves, at |-> tx[1].at])]
    /\ tx' = NoneV
    /\ tx_pc' = "idle"
    /\ UNCHANGED <<now, ticks, ret>>
    /\ UNCHANGED <<valvars, batchvars, pacevars, scanvars>>

\* The process stops between two statements of cache_cves (it is killed, or
\* a statement raises: nothing in the program catches it). The connection
\* is gone and SQLite rolls its open transaction back.
Interrupt ==
    /\ tx_pc # "idle"
    /\ ret' = [op |-> "interrupted", name |-> tx[1].app_key,
               version |-> tx[1].app_version, value |-> NoneV]
    /\ tx' = NoneV
    /\ tx_pc' = "idle"
    /\ UNCHANGED <<now, ticks, cve_cache, lookup_cache, stored>>
    /\ UNCHANGED <<valvars, batchvars, pacevars, scanvars>>

\* an hour passes
TxTick == Tick(1)

TxNext ==
    \/ \E a \in StoreInputs, cves \in TxLists : TxDeleteRecords(a[1], a[2], cves)
    \/ TxDeleteTimestamp
    \/ TxInsertRecord
    \/ TxInsertTimestamp
    \/ TxCommit
    \/ Interrupt
    \/ TxTick

SpecTx == CacheInit /\ [][TxNext]_vars

\* the entry of key k in the file: its record rows and its timestamp rows
Entry(k) ==
    [rows |-> SelectSeq(cve_cache, LAMBDA r : SameKey(r, k[1], k[2])),
     stamp |-> TimestampRows(lookup_cache, k)]

\* the entry of key k a complete store of e leaves: nothing when there was
\* no store
Complete(k, e) ==
    IF e = NoneV THEN [rows |-> <<>>, stamp |-> {}]
    ELSE [rows |-> InsertAll(<<>>, k[1], k[2], e[1].cves, e[1].at),
          stamp |-> { [app_name |-> k[1], app_version |-> k[2],
                       cached_at |-> isoformat(e[1].at)] }]

\* the store under way is for key k
Storing(k) == tx # NoneV /\ k = <<tx[1].app_key, tx[1].app_version>>

\* C14: in every state, a store under way or interrupted included, the
\* entry of a key in the file is the complete entry of the last store that
\* returned, or the complete entry of the store under way: a timestamp row
\* comes with all the records of its store and record rows come with their
\* timestamp row.
C14_StoreAtomicity ==
    \A k \in CacheKeys :
        /\ \/ Entry(k) = Complete(k, stored[k])
           \/ /\ Storing(k)
              /\ Entry(k) = Complete(k, Some([cves |-> tx[1].cves, at |-> tx[1].at]))
        /\ Entry(k).rows # <<>> => Entry(k).stamp # {}

\* a store that was replacing a non-empty entry was interrupted
C14_Witness ==
    /\ ret.op = "interrupted"
    /\ stored[RetKey] # NoneV
    /\ RetStored.cves # <<>>
    /\ Entry(RetKey) = Complete(RetKey, stored[RetKey])

----------------------------------------------------------------------------
(* The validator on its own: _search_by_cpe on one answer of the feed. *)

Cpe(vendor, product, version) ==
    join(<<S_cpe, S_2_3, S_a, vendor, product, version,
           S_star, S_star, S_star, S_star, S_star, S_star, S_star>>, ":")

\* the match rules the model draws from, for an installed curl
RuleExact(version) == CpeMatch(Cpe(S_haxx, S_curl, version), Some(TRUE), NoneV, NoneV, NoneV, NoneV)
RuleWildcard == CpeMatch(Cpe(S_haxx, S_curl, S_star), Some(TRUE), NoneV, NoneV, NoneV, NoneV)
RuleDateStart == CpeMatch(Cpe(S_haxx, S_curl, S_star), Some(TRUE), Some(D_2020_01_01), NoneV, NoneV, NoneV)
RuleRange == CpeMatch(Cpe(S_haxx, S_curl, S_star), Some(TRUE), NoneV, NoneV, NoneV, Some(V_9_0_0))
RuleDateAndRange == CpeMatch(Cpe(S_haxx, S_curl, S_star), Some(TRUE), NoneV, Some(V_7_0), Some(D_2020_01_01), NoneV)
RuleEmptyBoundary == CpeMatch(Cpe(S_haxx, S_curl, S_star), Some(TRUE), NoneV, NoneV, NoneV, Some(<<>>))
RuleNotVulnerable == CpeMatch(Cpe(S_haxx, S_curl, S_star), Some(FALSE), NoneV, NoneV, NoneV, NoneV)
RuleNoFlag == CpeMatch(Cpe(S_haxx, S_curl, V_8_5_0), NoneV, NoneV, NoneV, NoneV, NoneV)
RulePinnedOther == CpeMatch(Cpe(S_haxx, S_curl, V_7_0), Some(TRUE), NoneV, NoneV, NoneV, NoneV)
RulePinnedOtherDate == CpeMatch(Cpe(S_haxx, S_curl, V_7_0), Some(TRUE), Some(D_2020_01_01), NoneV, NoneV, NoneV)
RuleOtherProduct == CpeMatch(Cpe(S_gnu, S_wget, V_8_5_0), Some(TRUE), NoneV, NoneV, NoneV, NoneV)
RuleRangeBelow == CpeMatch(Cpe(S_haxx, S_curl, S_star), Some(TRUE), NoneV, NoneV, NoneV, Some(V_7_0))
RulePinnedOtherRange == CpeMatch(Cpe(S_haxx, S_curl, V_7_0), Some(TRUE), NoneV, NoneV, NoneV, Some(V_9_0_0))
RuleShort == CpeMatch(join(<<S_cpe, S_2_3, S_a, S_haxx, S_curl>>, ":"), Some(TRUE), NoneV, NoneV, NoneV, NoneV)

RuleUniverse ==
    { RuleExact(V_8_5_0), RuleWildcard, RuleDateStart, RuleRange, RuleDateAndRange,
      RuleEmptyBoundary, RuleNotVulnerable, RuleNoFlag, RulePinnedOther,
      RulePinnedOtherDate, RuleOtherProduct, RuleRangeBelow, RulePinnedOtherRange,
      RuleShort }

InstalledVersions == { V_8_5_0, V_unknown }

\* the rules of a configuration laid out in one node, in a node each, or in
\* a configuration each
Layout(rules, shape) ==
    CASE shape = "node" -> << [nodes |-> << [cpeMatch |-> rules] >>] >>
      [] shape = "nodes" -> << [nodes |-> AsList([i \in 1..Len(rules) |-> [cpeMatch |-> << rules[i] >>]],
                                                 Len(rules))] >>
      [] shape = "configs" ->
            AsList([i \in 1..Len(rules) |-> [nodes |-> << [cpeMatch |-> << rules[i] >>] >>]],
                   Len(rules))

Configurations ==
    { NoneV, Some(<<>>) }
        \cup { Some(Layout(rules, shape)) :
                 rules \in SeqsUpTo(RuleUniverse, MaxRules), shape \in {"node", "nodes", "configs"} }

\* an entry of the feed that every installation keeps: no configurations
Companion ==
    [cve |-> [id |-> "CVE-C", configurations |-> NoneV, published |-> NoneV,
              references |-> <<>>]]

\* a published date older than the age threshold, as the feed writes it
OldDate == isoformat(0 - CVE_MAX_AGE_YEARS * 365 * 24 - 1)

ValInit ==
    /\ \E name \in {S_curl, N_Firefox}, version \in InstalledVersions,
          configs \in Configurations,
          published \in {NoneV, Some(OldDate)}, alone \in BOOLEAN :
          LET entry == [cve |-> [id |-> "CVE-T", configurations |-> configs,
                                 published |-> published,
                                 references |-> <<"https://ref/t", "">>]]
          IN  val_in = [app |-> InstalledApp(name, version),
                        raw_vulns |-> IF alone THEN << entry >> ELSE << Companion, entry >>]
    /\ val_out = NoOut
    /\ call = NoCall
    /\ fetch = NoFetch

\* NVDClient._search_by_cpe, once the feed has answered: it returns None, it
\* raises, or it returns its records
SearchByCpe ==
    /\ ~val_out.done
    /\ LET mapping == APP_NAME_MAP_get(Lower(val_in.app.name))
       IN  IF mapping = NoneV
           THEN val_out' = [done |-> TRUE, raised |-> FALSE, validated |-> <<>>,
                            result |-> NoneV]
           ELSE IF validate_raises(val_in.raw_vulns, mapping[1][1], mapping[1][2],
                                   val_in.app.version)
           THEN val_out' = [done |-> TRUE, raised |-> TRUE, validated |-> <<>>,
                            result |-> NoneV]
           ELSE LET validated == validate_all(val_in.raw_vulns, mapping[1][1], mapping[1][2],
                                              val_in.app.version)
                IN  val_out' = [done |-> TRUE, raised |-> FALSE, validated |-> validated,
                                result |-> Some(filter_old_cves(parse_response(validated), now))]
    /\ UNCHANGED <<val_in, fetch, call>>
    /\ UNCHANGED <<dbvars, batchvars, pacevars, scanvars>>

ValNext == SearchByCpe

ValidateInit == DbInit /\ ValInit /\ BatchIdle /\ ScanIdle

SpecValidate == ValidateInit /\ [][ValNext]_vars

\* the entry under test (the last of the answer), its rules in scan order,
\* the identity checked
TestEntry == val_in.raw_vulns[Len(val_in.raw_vulns)].cve
TestRules ==
    IF TestEntry.configurations = NoneV THEN <<>>
    ELSE FlattenConfigs(TestEntry.configurations[1])
CheckedVendor == APP_NAME_MAP[Lower(val_in.app.name)][1]
CheckedProduct == APP_NAME_MAP[Lower(val_in.app.name)][2]
Installed == val_in.app.version

\* the validator kept the entry under test; the result holds its record
Kept == \E i \in 1..Len(val_out.validated) : val_out.validated[i].cve.id = TestEntry.id
InResult ==
    /\ val_out.result # NoneV
    /\ \E i \in 1..Len(val_out.result[1]) : val_out.result[1][i].cve_id = TestEntry.id

\* a rule of the checked vendor/product, and the version it pins
ForChecked(m) ==
    LET parts == split(m.criteria, ":")
    IN  Len(parts) >= 6 /\ parts[4] = CheckedVendor /\ parts[5] = CheckedProduct
Pinned(m) == split(m.criteria, ":")[6]

\* a boundary of the shape YYYY-MM-DD
DateShaped(b) ==
    /\ Len(b) = 10
    /\ \A i \in 1..10 : IF i = 5 \/ i = 8 THEN b[i] = "-" ELSE b[i] \in Digits
CarriesDate(m) == \E i \in 1..4 : m.boundaries[i] # NoneV /\ DateShaped(m.boundaries[i][1])

\* ^\d+\.\d+ : digits, a dot, a digit
SemverShaped(v) ==
    \E k \in 1..Len(v) : /\ \A i \in 1..k : v[i] \in Digits
                         /\ Len(v) >= k + 2 /\ v[k + 1] = "." /\ v[k + 2] \in Digits

\* C3 (as claimed): when the configuration holds a vulnerable rule of the
\* checked vendor/product whose pinned version is the installed version, the
\* validator answers true, whatever other rules are present and wherever.
C3_ExactMatchApplies ==
    (/\ val_out.done
     /\ \E i \in 1..Len(TestRules) :
            /\ ForChecked(TestRules[i])
            /\ TestRules[i].vulnerable = Some(TRUE)
            /\ Pinned(TestRules[i]) = Installed)
        => Kept

\* C4 (as claimed): when a rule of the checked vendor/product carries a
\* date-shaped boundary and the installed version is semver-shaped, the
\* validator answers false and the record is not in the result.
C4_DateRuleRejects ==
    (/\ val_out.done
     /\ SemverShaped(Installed)
     /\ \E i \in 1..Len(TestRules) : ForChecked(TestRules[i]) /\ CarriesDate(TestRules[i]))
        => (~Kept /\ ~InResult)

\* a vulnerable rule of the checked vendor/product that pins the installed
\* version or the wildcard: the rules at which the scan returns
Deciding(m) ==
    /\ ForChecked(m)
    /\ m.vulnerable = Some(TRUE)
    /\ Pinned(m) = Installed \/ Pinned(m) = <<"*">>

\* rule i is the first deciding rule in scan order
FirstDeciding(i) ==
    /\ i \in 1..Len(TestRules)
    /\ Deciding(TestRules[i])
    /\ \A j \in 1..(i - 1) : ~Deciding(TestRules[j])

\* C4 (amended): when the first vulnerable rule of the checked vendor/product,
\* in scan order, that pins the installed version or the wildcard is a
\* wildcard rule carrying a date-shaped boundary, and the installed version is
\* semver-shaped, the validator answers false and the record is not in the
\* result.
C4_FirstDateRuleRejects ==
    (/\ val_out.done
     /\ SemverShaped(Installed)
     /\ \E i \in 1..Len(TestRules) :
            /\ FirstDeciding(i)
            /\ Pinned(TestRules[i]) = <<"*">>
            /\ CarriesDate(TestRules[i]))
        => (~Kept /\ ~InResult)

\* C4's case: versionStartIncluding = "2020-01-01" on a wildcard rule that
\* follows another rule of the product, installed 8.5.0; the entry is dropped
\* and the rest of the answer is kept.
C4_Witness ==
    /\ val_out.done
    /\ Installed = <<"8", ".", "5", ".", "0">>
    /\ Len(TestRules) = 2
    /\ ForChecked(TestRules[1])
    /\ FirstDeciding(2)
    /\ TestRules[2].boundaries[1] = Some(D_2020_01_01)
    /\ ~Kept
    /\ Len(val_out.validated) = 1

\* C5: an entry that carries no applicability configuration, missing or empty,
\* is answered true for every installed version and every vendor/product.
C5_NoConfigApplies ==
    (val_out.done /\ (TestEntry.configurations = NoneV \/ TestEntry.configurations = Some(<<>>))) => Kept

\* C5's case: an empty configuration list, a version that is no semantic
\* version; the entry is kept.
C5_Witness ==
    /\ val_out.done
    /\ TestEntry.configurations = Some(<<>>)
    /\ ~SemverShaped(Installed)
    /\ Kept

\* a rule of the checked vendor/product that is marked not vulnerable
MarkedNotVulnerable(m) == ForChecked(m) /\ m.vulnerable = Some(FALSE)

\* C19: when no vulnerable rule of the checked vendor/product pins the
\* installed version or the wildcard, and a rule of that vendor/product is
\* marked not vulnerable, the validator answers false and the record is not
\* in the result.
C19_ExclusionRejects ==
    (/\ val_out.done
     /\ \A i \in 1..Len(TestRules) : ~Deciding(TestRules[i])
     /\ \E i \in 1..Len(TestRules) : MarkedNotVulnerable(TestRules[i]))
        => (~Kept /\ ~InResult)

\* C19's case: a rule marked not vulnerable next to a vulnerable rule that
\* pins another version; the entry is dropped
C19_Witness ==
    /\ val_out.done
    /\ \A i \in 1..Len(TestRules) : ~Deciding(TestRules[i])
    /\ \E i, j \in 1..Len(TestRules) :
           /\ MarkedNotVulnerable(TestRules[i])
           /\ ForChecked(TestRules[j]) /\ TestRules[j].vulnerable = Some(TRUE)
    /\ ~Kept

\* the rules of the checked vendor/product, in scan order
CheckedRules == SelectSeq(TestRules, ForChecked)

\* C20: when the configuration has rules but none for the checked
\* vendor/product, the validator answers true; and the validator answers
\* for a configuration what it answers for its rules of the checked
\* vendor/product alone.
C20_DefaultApplies ==
    (val_out.done /\ TestRules # <<>>) =>
        /\ CheckedRules = <<>> => Kept
        /\ Kept <=> ScanRules(CheckedRules, CheckedVendor, CheckedProduct, Installed,
                              FALSE, FALSE)

\* C20's case: rules of another vendor and product only, one of them marked
\* not vulnerable; the entry is kept
C20_Witness ==
    /\ val_out.done
    /\ Len(TestRules) = 2
    /\ CheckedRules = <<>>
    /\ \E i \in 1..2 : TestRules[i].vulnerable = Some(FALSE)
    /\ Kept

----------------------------------------------------------------------------
(* The validator on answers of several entries, one of which may be        *)
(* malformed.                                                               *)

\* an entry of the feed for curl with the given id and rules
EntryFor(id, rules) ==
    [cve |-> [id |-> id, configurations |-> Some(Layout(rules, "node")),
              published |-> NoneV, references |-> <<>>]]

\* a rule whose criteria is null
RuleNullCriteria == CpeMatch(JsonNull, Some(TRUE), NoneV, NoneV, NoneV, NoneV)

\* the entries of an answer: one the validator keeps, one it rejects, one
\* whose first rule is malformed, one whose malformed rule stands after a
\* rule that decides
AnswerEntries ==
    { EntryFor("CVE-K", << RuleWildcard >>),
      EntryFor("CVE-R", << RuleNotVulnerable >>),
      EntryFor("CVE-M", << RuleNullCriteria, RuleWildcard >>),
      EntryFor("CVE-L", << RuleWildcard, RuleNullCriteria >>) }

IsolateInit ==
    /\ \E version \in InstalledVersions, raw_vulns \in SeqsUpTo(AnswerEntries, MaxEntries) :
          val_in = [app |-> InstalledApp(S_curl, version), raw_vulns |-> raw_vulns]
    /\ val_out = NoOut
    /\ call = NoCall
    /\ fetch = NoFetch

IsolatedInit == DbInit /\ IsolateInit /\ BatchIdle /\ ScanIdle

SpecIsolate == IsolatedInit /\ [][ValNext]_vars

\* entry i of the answer makes the validator raise
RaisesAt(i) ==
    cve_affects_version_raises(val_in.raw_vulns[i].cve, S_haxx, S_curl, val_in.app.version)

\* C18 (as claimed): when the validation of one entry of an answer raises,
\* _search_by_cpe does not raise and returns the record of every other
\* entry that the validator keeps; only the failing entry is skipped.
C18_PerRecordIsolation ==
    val_out.done =>
        /\ ~val_out.raised
        /\ \A i \in 1..Len(val_in.raw_vulns) :
               (~RaisesAt(i) /\ cve_affects_version(val_in.raw_vulns[i].cve, S_haxx, S_curl,
                                                    val_in.app.version))
                 => \E j \in 1..Len(val_out.result[1]) :
                        val_out.result[1][j].cve_id = val_in.raw_vulns[i].cve.id

----------------------------------------------------------------------------
(* One call of _fetch_raw, step by step: the request, what comes back, the *)
(* cooldown after a 403.                                                    *)

\* what may come back: a status, httpx.TimeoutException, httpx.ConnectError,
\* or an exception of another class
FetchKinds == {"200", "403", "500", "timeout", "connect", "error"}

\* _fetch_raw is called; the body is what the feed would put in its answer
FetchInit ==
    /\ val_in = [app |-> InstalledApp(S_curl, <<>>), raw_vulns |-> <<>>]
    /\ val_out = NoOut
    /\ call = NoCall
    /\ \E body \in SeqsUpTo(AnswerEntries, MaxEntries) :
          fetch = [pc |-> "start", body |-> body, sent |-> 0, slept |-> 0,
                   status |-> "", ret |-> NoneV]

\* await client.get(...) is issued (nvd_client.py:169-174)
FetchSend ==
    /\ fetch.pc = "start"
    /\ fetch' = [fetch EXCEPT !.pc = "awaiting", !.sent = @ + 1]
    /\ UNCHANGED <<val_in, val_out, call>>
    /\ UNCHANGED <<dbvars, batchvars, pacevars, scanvars>>

\* client.get returns or raises (nvd_client.py:176-194)
FetchAnswer(kind) ==
    /\ fetch.pc = "awaiting"
    /\ LET response == Response(kind, fetch.body)
       IN  fetch' = IF fetch_raises(response)
                    THEN [fetch EXCEPT !.pc = "raised", !.status = kind]
                    ELSE IF kind = "403"
                    THEN [fetch EXCEPT !.pc = "cooldown", !.status = kind]
                    ELSE [fetch EXCEPT !.pc = "returned", !.status = kind,
                                        !.ret = Some(fetch_raw(response))]
    /\ UNCHANGED <<val_in, val_out, call>>
    /\ UNCHANGED <<dbvars, batchvars, pacevars, scanvars>>

\* await asyncio.sleep(30) is over: return [] (nvd_client.py:178-179)
FetchCooldownOver ==
    /\ fetch.pc = "cooldown"
    /\ fetch' = [fetch EXCEPT !.pc = "returned", !.slept = @ + RATE_LIMIT_COOLDOWN,
                              !.ret = Some(fetch_raw(Response(fetch.status, fetch.body)))]
    /\ UNCHANGED <<val_in, val_out, call>>
    /\ UNCHANGED <<dbvars, batchvars, pacevars, scanvars>>

FetchNext ==
    \/ FetchSend
    \/ \E kind \in FetchKinds : FetchAnswer(kind)
    \/ FetchCooldownOver

FetchingInit == DbInit /\ FetchInit /\ BatchIdle /\ ScanIdle

SpecFetch == FetchingInit /\ [][FetchNext]_vars

\* the remote failures the claim names
RemoteFailure(status) ==
    status = "timeout" \/ status = "connect" \/ status = "403" \/ status = "500"

\* C22: one call of _fetch_raw sends at most one request; on a timeout, a
\* connection failure, a 403 or another status that is not 200 it does not
\* raise, and when it returns it returns the empty list, having sent one
\* request and slept 30 seconds after a 403 and not at all otherwise.
C22_FailureIsEmptyNoRetry ==
    /\ fetch.sent <= 1
    /\ RemoteFailure(fetch.status) => fetch.pc # "raised"
    /\ (fetch.pc = "returned" /\ RemoteFailure(fetch.status)) =>
           /\ fetch.ret = Some(<<>>)
           /\ fetch.sent = 1
           /\ fetch.slept = IF fetch.status = "403" THEN 30 ELSE 0

\* a 403 that came with entries in its body: the call slept and returned
\* the empty list
C22_Witness ==
    /\ fetch.pc = "returned"
    /\ fetch.status = "403"
    /\ fetch.body # <<>>
    /\ fetch.slept = 30
    /\ fetch.ret = Some(<<>>)

----------------------------------------------------------------------------
(* The batch scheduler: search_cves_batch on a list of applications. *)

\* the feed's entries for an application: one that names its exact version,
\* one that excludes its product
FeedEntries(mapping, version) ==
    << [cve |-> [id |-> "CVE-1", published |-> NoneV, references |-> <<"https://ref/1">>,
                 configurations |-> Some(Layout(
                     << CpeMatch(Cpe(mapping[1], mapping[2], version), Some(TRUE),
                                 NoneV, NoneV, NoneV, NoneV) >>, "node"))]],
       [cve |-> [id |-> "CVE-2", published |-> NoneV, references |-> <<>>,
                 configurations |-> Some(Layout(
                     << CpeMatch(Cpe(mapping[1], mapping[2], S_star), Some(FALSE),
                                 NoneV, NoneV, NoneV, NoneV) >>, "node"))]] >>

\* what the feed may do with the request for an application, by kind
ResponseKinds == {"200", "200-empty", "403", "500", "timeout", "error"}
ResponseOf(kind, mapping, version) ==
    CASE kind = "200" -> Response("200", FeedEntries(mapping, version))
      [] kind = "200-empty" -> Response("200", <<>>)
      [] OTHER -> Response(kind, <<>>)

\* the applications search_cves_batch is given, duplicates allowed
BatchPool ==
    { InstalledApp(N_Firefox, V_120_0), InstalledApp(S_curl, V_8_5_0) }

CurrentBatch == BatchOf(b_apps, batch_start, batch_size(api_key))

BatchInit ==
    /\ api_key = NoneV
    /\ b_apps \in SeqsUpTo(BatchPool, MaxApps)
    /\ b_pc = "start"
    /\ batch_start = 0
    /\ task = AsList([i \in 1..Len(b_apps) |-> Pending], Len(b_apps))
    /\ results = <<>>
    /\ calls = <<>>
    /\ requested = {}
    /\ clk = 0
    /\ starts = <<>>
    /\ sleeps = <<>>

\* One iteration of the loop begins: gather schedules the batch's coroutines
\* and each runs to its first suspension. A fetch for a name outside
\* APP_NAME_MAP returns at once, without a request (nvd_client.py:135-137,
\* 93-95); the others send their request and wait for the feed.
StartBatch ==
    /\ b_pc = "start"
    /\ batch_start < Len(b_apps)
    /\ task' = AsList([i \in 1..Len(b_apps) |->
                          IF i \in CurrentBatch
                          THEN IF APP_NAME_MAP_get(Lower(b_apps[i].name)) = NoneV
                               THEN Done(<<>>) ELSE InFlight
                          ELSE task[i]], Len(b_apps))
    /\ requested' = requested \cup
           { i \in CurrentBatch : APP_NAME_MAP_get(Lower(b_apps[i].name)) # NoneV }
    /\ b_pc' = "gather"
    /\ starts' = Append(starts, clk)
    /\ UNCHANGED <<api_key, b_apps, batch_start, results, calls, clk, sleeps>>
    /\ UNCHANGED <<dbvars, valvars, scanvars>>

\* the feed answers one request, in one of the given ways, and
\* _search_single resolves: with its records, or by raising
Resolve(i, kinds) ==
    /\ (b_pc = "gather" \/ b_pc = "start" \/ b_pc = "sleep")
    /\ i \in 1..Len(b_apps)
    /\ task[i].st = "in_flight"
    /\ LET mapping == APP_NAME_MAP[Lower(b_apps[i].name)]
       IN  \E kind \in kinds :
              LET response == ResponseOf(kind, mapping, b_apps[i].version)
              IN  task' = [task EXCEPT ![i] =
                              [(IF fetch_raises(response) THEN Raised
                                ELSE Done(search_by_cpe(b_apps[i], mapping, response, now)))
                                  EXCEPT !.answer = response.kind]]
    /\ UNCHANGED <<api_key, b_apps, b_pc, batch_start, results, calls, requested>>
    /\ UNCHANGED pacevars
    /\ UNCHANGED <<dbvars, valvars, scanvars>>

\* gather returns; the loop over the batch's results runs; then the sleep
\* before the next batch, or the return after the last
FinishBatch ==
    /\ b_pc = "gather"
    /\ AllResolved(task, CurrentBatch)
    /\ IF ~ReturnExceptions /\ \E i \in CurrentBatch : task[i].st = "raised"
       THEN /\ b_pc' = "failed"
            /\ UNCHANGED <<results, calls>>
       ELSE /\ LET hi == IF batch_start + batch_size(api_key) < Len(b_apps)
                         THEN batch_start + batch_size(api_key) ELSE Len(b_apps)
                   out == ProcessBatch(b_apps, task, batch_start, batch_start + 1, hi,
                                       [results |-> results, calls |-> calls])
               IN  /\ results' = out.results
                   /\ calls' = out.calls
            /\ b_pc' = IF MoreBatches(batch_start, batch_size(api_key), Len(b_apps))
                       THEN "sleep" ELSE "done"
    /\ UNCHANGED <<api_key, b_apps, batch_start, task, requested>>
    /\ UNCHANGED pacevars
    /\ UNCHANGED <<dbvars, valvars, scanvars>>

\* asyncio.sleep(self.batch_window) is over: the next iteration
WakeUp ==
    /\ b_pc = "sleep"
    /\ batch_start' = batch_start + batch_size(api_key)
    /\ b_pc' = "start"
    /\ clk' = clk + batch_window(api_key)
    /\ sleeps' = Append(sleeps, batch_window(api_key))
    /\ UNCHANGED <<api_key, b_apps, task, results, calls, requested, starts>>
    /\ UNCHANGED <<dbvars, valvars, scanvars>>

\* the loop has nothing to iterate over: an empty list
ReturnEmpty ==
    /\ b_pc = "start"
    /\ batch_start >= Len(b_apps)
    /\ b_pc' = "done"
    /\ UNCHANGED <<api_key, b_apps, batch_start, task, results, calls, requested>>
    /\ UNCHANGED pacevars
    /\ UNCHANGED <<dbvars, valvars, scanvars>>

\* in this specification the feed answers with entries or the request fails
AnsweredOrFailed == {"200", "error"}

BatchNext ==
    \/ StartBatch
    \/ \E i \in 1..MaxApps : Resolve(i, AnsweredOrFailed)
    \/ FinishBatch
    \/ WakeUp
    \/ ReturnEmpty

SchedulerInit == DbInit /\ ValIdle /\ BatchInit /\ ScanIdle

SpecBatch == SchedulerInit /\ [][BatchNext]_vars

\* the batch (0, 1, ...) position i of the list falls in
BatchNo(i) == (i - 1) \div batch_size(api_key)

\* the last position of the list whose application has the key of position i
LastWithKey(i) ==
    CHOOSE p \in i..Len(b_apps) :
        /\ ResultKey(b_apps[p]) = ResultKey(b_apps[i])
        /\ \A q \in (p + 1)..Len(b_apps) : ResultKey(b_apps[q]) # ResultKey(b_apps[i])

\* C6: when search_cves_batch has returned, the callback has been invoked
\* once per application of the list, and the completed counts of successive
\* invocations are strictly increasing, from 1 to the length of the list.
C6_ProgressStrictlyIncreasing ==
    b_pc = "done" =>
        /\ Len(calls) = Len(b_apps)
        /\ \A j \in 1..(Len(calls) - 1) : calls[j].completed < calls[j + 1].completed
        /\ Len(calls) > 0 =>
               /\ calls[1].completed = 1
               /\ calls[Len(calls)].completed = Len(b_apps)

\* C7 as the spec states it: when one fetch of a batch raises, every other
\* application of that batch whose fetch returned has that fetch's result
\* under its key, the application whose fetch raised has an empty result,
\* and the call does not fail.
C7_EveryOtherOwnResult ==
    /\ b_pc # "failed"
    /\ b_pc = "done" =>
           \A i \in 1..Len(b_apps) :
               task[i].st = "raised" =>
                   /\ dict_get(results, ResultKey(b_apps[i])) = <<>>
                   /\ ResultKey(b_apps[i]) \in dict_keys(results)
                   /\ \A j \in 1..Len(b_apps) :
                          (j # i /\ BatchNo(j) = BatchNo(i) /\ task[j].st = "done") =>
                              dict_get(results, ResultKey(b_apps[j])) = task[j].result

\* C7, amended: the call never fails, and when it has returned the result
\* under each name:version key is that of the last application of the list
\* with that key: what its fetch returned, or an empty list if its fetch
\* raised. An application whose key no other shares has its own result.
C7_LastOfKeyResult ==
    /\ b_pc # "failed"
    /\ b_pc = "done" =>
           /\ dict_keys(results) = { ResultKey(b_apps[i]) : i \in 1..Len(b_apps) }
           /\ \A i \in 1..Len(b_apps) :
                  dict_get(results, ResultKey(b_apps[i])) = ResultOf(task[LastWithKey(i)])

\* a batch of two applications with different keys: one fetch raised and
\* has an empty result, the other returned a record and has it
C7_Witness ==
    /\ b_pc = "done"
    /\ \E i, j \in 1..Len(b_apps) :
           /\ BatchNo(i) = BatchNo(j)
           /\ ResultKey(b_apps[i]) # ResultKey(b_apps[j])
           /\ task[i].st = "raised"
           /\ task[j].st = "done"
           /\ task[j].result # <<>>
           /\ dict_get(results, ResultKey(b_apps[i])) = <<>>
           /\ dict_get(results, ResultKey(b_apps[j])) = task[j].result

\* C10: whenever a fetch of some batch has started, every fetch of every
\* earlier batch has resolved, by returning or by raising.
C10_BatchOrdering ==
    \A i, j \in 1..Len(b_apps) :
        (BatchNo(i) < BatchNo(j) /\ task[j].st # "pending") => Resolved(task[i])

\* a fetch of the second batch is in flight after a first batch in which
\* one fetch raised and another returned
C10_Witness ==
    \E i, j, k \in 1..Len(b_apps) :
        /\ BatchNo(i) = 0 /\ BatchNo(j) = 0 /\ BatchNo(k) = 1
        /\ task[i].st = "raised"
        /\ task[j].st = "done"
        /\ task[k].st = "in_flight"

----------------------------------------------------------------------------
(* The scheduler on the clock: search_cves_batch with and without a         *)
(* credential, on lists long enough for several batches, with fetches that  *)
(* take time. All the requests of a batch are issued in the second gather   *)
(* is called.                                                               *)

ApiKeys == { NoneV, Some(<<"k">>) }

\* a list of n applications that all have a known identity
BusyList(n) == AsList([i \in 1..n |-> InstalledApp(N_Firefox, V_120_0)], n)

\* a list of n applications of which only those on the two sides of the
\* first batch boundary of a client with a credential have a known identity
SparseList(n) ==
    AsList([i \in 1..n |->
               IF i = BATCH_SIZE_WITH_KEY \/ i = BATCH_SIZE_WITH_KEY + 1
               THEN InstalledApp(S_curl, V_8_5_0)
               ELSE InstalledApp(N_UnknownTool, V_1_0)], n)

PaceLists ==
    { BusyList(n) : n \in 0..MaxBusy } \cup { SparseList(n) : n \in 0..MaxPaceApps }

PaceInit ==
    /\ api_key \in ApiKeys
    /\ b_apps \in PaceLists
    /\ b_pc = "start"
    /\ batch_start = 0
    /\ task = AsList([i \in 1..Len(b_apps) |-> Pending], Len(b_apps))
    /\ results = <<>>
    /\ calls = <<>>
    /\ requested = {}
    /\ clk = 0
    /\ starts = <<>>
    /\ sleeps = <<>>

\* a second passes while gather waits for the fetches of the batch
Elapse ==
    /\ b_pc = "gather"
    /\ \E i \in CurrentBatch : task[i].st = "in_flight"
    /\ clk - starts[Len(starts)] < MaxFetch
    /\ clk' = clk + 1
    /\ UNCHANGED <<starts, sleeps>>
    /\ UNCHANGED <<dbvars, valvars, batchvars, scanvars>>

\* in this specification the feed answers every request, with no entries
AnsweredEmpty == {"200-empty"}

PaceNext ==
    \/ StartBatch
    \/ \E i \in 1..MaxPaceApps : Resolve(i, AnsweredEmpty)
    \/ Elapse
    \/ FinishBatch
    \/ WakeUp
    \/ ReturnEmpty

PacedInit == DbInit /\ ValIdle /\ PaceInit /\ ScanIdle

SpecPace == PacedInit /\ [][PaceNext]_vars

\* ceil(n / b)
NumBatches(n, b) == (n + b - 1) \div b

\* C11: every pause of the scheduler lasts 31 seconds, with or without a
\* credential; the scheduler pauses only after a batch that is not the last
\* and the next batch starts only after that pause; when search_cves_batch
\* has returned for n applications and batch size b it has paused
\* ceil(n/b) - 1 times, and 0 times when n = 0.
C11_InterBatchPause ==
    /\ \A k \in 1..Len(sleeps) : sleeps[k] = 31
    /\ b_pc = "sleep" => batch_start + batch_size(api_key) < Len(b_apps)
    /\ b_pc = "gather" => Len(sleeps) = Len(starts) - 1
    /\ b_pc = "done" =>
           Len(sleeps) = IF Len(b_apps) = 0 THEN 0
                         ELSE NumBatches(Len(b_apps), batch_size(api_key)) - 1

\* search_cves_batch has returned after a pause, for a client with a
\* credential
C11_Witness ==
    /\ b_pc = "done"
    /\ api_key # NoneV
    /\ Len(b_apps) > BATCH_SIZE_WITH_KEY
    /\ Len(sleeps) = 1

\* the second the request for position i was issued
RequestTime(i) == starts[BatchNo(i) + 1]

\* the requests issued in the 31 seconds from second t on, t included
InWindow(t) == { i \in requested : t <= RequestTime(i) /\ RequestTime(i) < t + 31 }

\* C12: during one call of search_cves_batch, at most 40 requests with a
\* credential, 5 without, are issued in any window of 31 seconds, and two
\* requests of different batches are at least 31 seconds apart, whatever
\* the length of the list and the time the fetches take.
C12_RateLimit ==
    /\ \A t \in 0..clk :
           Cardinality(InWindow(t)) <= IF api_key # NoneV THEN 40 ELSE 5
    /\ \A i, j \in requested :
           BatchNo(i) < BatchNo(j) => RequestTime(j) - RequestTime(i) >= 31

\* without a credential two full batches of requests were issued, the
\* fetches of the first taking no time
C12_Witness ==
    /\ api_key = NoneV
    /\ Len(starts) >= 2
    /\ starts[2] - starts[1] = 31
    /\ Cardinality({ i \in requested : BatchNo(i) = 0 }) = 5
    /\ Cardinality({ i \in requested : BatchNo(i) = 1 }) = 5

----------------------------------------------------------------------------
(* src/src/main.py: _run_scan, over the cache and the scheduler. A scan     *)
(* takes no time on the clock of the model, which counts hours.             *)

sort_order_Flat(sev) == 0

\* Severity.sort_order
sort_order(sev) ==
    CASE sev = "LOW" -> 1
      [] sev = "MEDIUM" -> 2
      [] sev = "HIGH" -> 3
      [] sev = "CRITICAL" -> 4
      [] OTHER -> 0

\* VulnerableApp.max_severity: max() keeps the first of the largest
max_severity(cves) ==
    IF cves = <<>> THEN "NONE"
    ELSE cves[CHOOSE i \in 1..Len(cves) :
                 /\ \A j \in 1..Len(cves) :
                        sort_order(cves[j].severity) <= sort_order(cves[i].severity)
                 /\ \A j \in 1..(i - 1) :
                        sort_order(cves[j].severity) < sort_order(cves[i].severity)].severity

VulnerableApp(app, cves) == [app |-> app, cves |-> cves]

\* ScanResult.total_cves
RECURSIVE total_cves(_)
total_cves(vapps) ==
    IF vapps = <<>> THEN 0 ELSE Len(Head(vapps).cves) + total_cves(Tail(vapps))

\* ScanResult.critical_count
RECURSIVE critical_count(_)
critical_count(vapps) ==
    IF vapps = <<>> THEN 0
    ELSE Len(SelectSeq(Head(vapps).cves, LAMBDA c : c.severity = "CRITICAL"))
             + critical_count(Tail(vapps))

ScanResult(timestamp, total_apps, apps_scanned, vapps, errors) ==
    [timestamp |-> timestamp, total_apps |-> total_apps, apps_scanned |-> apps_scanned,
     vulnerable_apps |-> vapps, errors |-> errors]

\* the row Database.save_scan_result inserts
save_scan_result(result, at) ==
    [timestamp |-> isoformat(at),
     total_apps |-> result.total_apps,
     apps_scanned |-> result.apps_scanned,
     total_cves |-> total_cves(result.vulnerable_apps),
     critical_count |-> critical_count(result.vulnerable_apps),
     vulnerable_apps_json |->
         json_dumps(AsList([i \in 1..Len(result.vulnerable_apps) |->
                               [name |-> result.vulnerable_apps[i].app.name,
                                version |-> result.vulnerable_apps[i].app.version,
                                cve_count |-> Len(result.vulnerable_apps[i].cves),
                                max_severity |-> max_severity(result.vulnerable_apps[i].cves)]],
                           Len(result.vulnerable_apps)))]

\* the unknown application is not stored
StoreUnknown_Skip(cc, lc, app, at) == [cc |-> cc, lc |-> lc]

\* db.cache_cves(app.name, app.version, []) for an application the resolver
\* table does not know (main.py:179): the two tables after it
StoreUnknown(cc, lc, app, at) ==
    [cc |-> cache_cves_rows(cc, app.name, app.version, <<>>, at),
     lc |-> cache_cves_lookup(lc, app.name, app.version, at)]

\* the loop over apps (main.py:172-180), from position i on
RECURSIVE Classify(_, _, _, _)
Classify(app_list, i, acc, at) ==
    IF i > Len(app_list) THEN acc
    ELSE LET app == app_list[i]
             cached == get_cached_cves(acc.cc, acc.lc, app.name, app.version, at)
         IN  Classify(app_list, i + 1,
                 IF cached # NoneV
                 THEN [acc EXCEPT !.cached_apps = Append(@, [app |-> app, cves |-> cached[1]])]
                 ELSE IF has_known_cpe(app)
                 THEN [acc EXCEPT !.to_query = Append(@, app)]
                 ELSE LET t == StoreUnknown(acc.cc, acc.lc, app, at)
                      IN  [acc EXCEPT !.cc = t.cc, !.lc = t.lc,
                                      !.cached_apps = Append(@, [app |-> app, cves |-> <<>>])],
                 at)

\* the loop over cached_apps (main.py:182-184)
RECURSIVE FromCache(_)
FromCache(pairs) ==
    IF pairs = <<>> THEN <<>>
    ELSE IF Head(pairs).cves # <<>>
         THEN <<VulnerableApp(Head(pairs).app, Head(pairs).cves)>> \o FromCache(Tail(pairs))
         ELSE FromCache(Tail(pairs))

\* the loop over to_query after the batch call (main.py:205-212, 235-243)
RECURSIVE StoreResults(_, _, _, _, _)
StoreResults(app_list, i, batch_results, acc, at) ==
    IF i > Len(app_list) THEN acc
    ELSE LET app == app_list[i]
             cves == dict_get(batch_results, ResultKey(app))
         IN  StoreResults(app_list, i + 1, batch_results,
                 [cc |-> cache_cves_rows(acc.cc, app.name, app.version, cves, at),
                  lc |-> cache_cves_lookup(acc.lc, app.name, app.version, at),
                  vulnerable_apps |-> IF cves # <<>>
                                      THEN Append(acc.vulnerable_apps, VulnerableApp(app, cves))
                                      ELSE acc.vulnerable_apps,
                  scanned |-> acc.scanned + 1],
                 at)

----------------------------------------------------------------------------
(* The scan: _run_scan run up to MaxScans times over one installation, the  *)
(* clock moving between runs.                                               *)

\* what scan_all_apps() can return: the applications found, one per
\* lower-cased name, in the order of their lower-cased names
Discoverable ==
    << InstalledApp(S_curl, V_8_5_0), InstalledApp(N_Firefox, V_120_0),
       InstalledApp(N_UnknownTool, V_1_0) >>

RECURSIVE Found(_, _)
Found(present, i) ==
    IF i > Len(Discoverable) THEN <<>>
    ELSE (IF i \in present THEN <<Discoverable[i]>> ELSE <<>>) \o Found(present, i + 1)

Installations == { Found(present, 1) : present \in SUBSET (1..Len(Discoverable)) }

\* the applications of the list with an entry the cache returns at the
\* moment the scan starts, each with the records returned
RECURSIVE CacheHits(_, _, _, _)
CacheHits(app_list, cc, lc, at) ==
    IF app_list = <<>> THEN <<>>
    ELSE LET app == Head(app_list)
             cached == get_cached_cves(cc, lc, app.name, app.version, at)
         IN  (IF cached # NoneV THEN <<[app |-> app, cves |-> cached[1]]>> ELSE <<>>)
                 \o CacheHits(Tail(app_list), cc, lc, at)

\* what one run of _run_scan leaves for the observer: the ScanResult, the
\* applications a request was sent for, and the cache hits it started with
ScanRecord(result, asked, hits) == [result |-> result, requested |-> asked, hits |-> hits]

ScanInit ==
    /\ now = 0
    /\ ticks = 0
    /\ cve_cache = <<>>
    /\ lookup_cache = {}
    /\ stored = [k \in CacheKeys |-> NoneV]
    /\ ret = NoRet
    /\ tx_pc = "idle"
    /\ tx = NoneV
    /\ val_in = [app |-> InstalledApp(S_curl, <<>>), raw_vulns |-> <<>>]
    /\ val_out = NoOut
    /\ call = NoCall
    /\ fetch = NoFetch
    /\ api_key = NoneV
    /\ b_apps = <<>>
    /\ b_pc = "idle"
    /\ batch_start = 0
    /\ task = <<>>
    /\ results = <<>>
    /\ calls = <<>>
    /\ requested = {}
    /\ clk = 0
    /\ starts = <<>>
    /\ sleeps = <<>>
    /\ s_apps \in Installations
    /\ s_pc = "idle"
    /\ cached_apps = <<>>
    /\ to_query = <<>>
    /\ vulnerable_apps = <<>>
    /\ scan_history = <<>>
    /\ scans = <<>>
    /\ s_hits = <<>>

\* between scans time passes
ScanTick(d) ==
    /\ s_pc = "idle"
    /\ Tick(d)

\* scan_all_apps() found nothing: the early return (main.py:159-166)
ScanNoApps ==
    /\ s_pc = "idle"
    /\ Len(scans) < MaxScans
    /\ s_apps = <<>>
    /\ scans' = Append(scans,
                   ScanRecord(ScanResult(now, 0, 0, <<>>, <<"No installed applications found.">>),
                              {}, <<>>))
    /\ UNCHANGED <<s_apps, s_pc, cached_apps, to_query, vulnerable_apps, scan_history, s_hits>>
    /\ UNCHANGED <<dbvars, valvars, batchvars, pacevars>>

\* _run_scan up to the call of search_cves_batch (main.py:149-204), and to
\* its end (main.py:245-276) when there is nothing to ask the feed
StartScan ==
    /\ s_pc = "idle"
    /\ Len(scans) < MaxScans
    /\ s_apps # <<>>
    /\ LET c == Classify(s_apps, 1,
                     [cc |-> cve_cache, lc |-> lookup_cache,
                      cached_apps |-> <<>>, to_query |-> <<>>], now)
           hits == CacheHits(s_apps, cve_cache, lookup_cache, now)
           vapps == FromCache(c.cached_apps)
           result == ScanResult(now, Len(s_apps), Len(c.cached_apps), vapps, <<>>)
       IN  /\ cve_cache' = c.cc
           /\ lookup_cache' = c.lc
           /\ cached_apps' = c.cached_apps
           /\ to_query' = c.to_query
           /\ vulnerable_apps' = vapps
           /\ s_hits' = hits
           /\ IF c.to_query # <<>>
              THEN /\ s_pc' = "querying"
                   /\ b_apps' = c.to_query
                   /\ b_pc' = "start"
                   /\ batch_start' = 0
                   /\ task' = AsList([i \in 1..Len(c.to_query) |-> Pending], Len(c.to_query))
                   /\ results' = <<>>
                   /\ calls' = <<>>
                   /\ requested' = {}
                   /\ clk' = 0
                   /\ starts' = <<>>
                   /\ sleeps' = <<>>
                   /\ UNCHANGED <<scan_history, scans>>
              ELSE /\ s_pc' = "idle"
                   /\ scan_history' = Append(scan_history, save_scan_result(result, now))
                   /\ scans' = Append(scans, ScanRecord(result, {}, hits))
                   /\ UNCHANGED <<b_apps, b_pc, batch_start, task, results, calls, requested>>
                   /\ UNCHANGED pacevars
    /\ UNCHANGED <<now, ticks, stored, ret, tx_pc, tx, api_key, s_apps>>
    /\ UNCHANGED valvars

\* search_cves_batch has returned: the results are stored and reported and
\* the scan is saved (main.py:205-212, 250-276)
FinishScan ==
    /\ s_pc = "querying"
    /\ b_pc = "done"
    /\ LET st == StoreResults(to_query, 1, results,
                      [cc |-> cve_cache, lc |-> lookup_cache,
                       vulnerable_apps |-> vulnerable_apps,
                       scanned |-> Len(cached_apps)], now)
           result == ScanResult(now, Len(s_apps), st.scanned, st.vulnerable_apps, <<>>)
       IN  /\ cve_cache' = st.cc
           /\ lookup_cache' = st.lc
           /\ vulnerable_apps' = st.vulnerable_apps
           /\ scan_history' = Append(scan_history, save_scan_result(result, now))
           /\ scans' = Append(scans,
                          ScanRecord(result, { b_apps[i] : i \in requested }, s_hits))
    /\ s_pc' = "idle"
    /\ UNCHANGED <<now, ticks, stored, ret, tx_pc, tx, s_apps, cached_apps, to_query, s_hits>>
    /\ UNCHANGED <<valvars, batchvars, pacevars>>

\* db.cache_cves raises for the j-th application of the loop over to_query
\* (sqlite3.OperationalError: the database is locked, the disk is full). The
\* call is not inside a try (main.py:209, 238): the exception leaves
\* _run_scan, after the stores of the applications before the j-th.
CacheWriteFails(j) ==
    /\ s_pc = "querying"
    /\ b_pc = "done"
    /\ j \in 1..Len(to_query)
    /\ LET st == StoreResults(SubSeq(to_query, 1, j - 1), 1, results,
                      [cc |-> cve_cache, lc |-> lookup_cache,
                       vulnerable_apps |-> vulnerable_apps,
                       scanned |-> Len(cached_apps)], now)
       IN  /\ cve_cache' = st.cc
           /\ lookup_cache' = st.lc
           /\ vulnerable_apps' = st.vulnerable_apps
    /\ s_pc' = "cache_cves raised"
    /\ UNCHANGED <<now, ticks, stored, ret, tx_pc, tx, s_apps, cached_apps, to_query,
                   scan_history, scans, s_hits>>
    /\ UNCHANGED <<valvars, batchvars, pacevars>>

\* db.save_scan_result raises after the loop over to_query. The call is not
\* inside a try (main.py:258-272): the exception leaves _run_scan, which
\* returns nothing.
SummaryFails ==
    /\ s_pc = "querying"
    /\ b_pc = "done"
    /\ LET st == StoreResults(to_query, 1, results,
                      [cc |-> cve_cache, lc |-> lookup_cache,
                       vulnerable_apps |-> vulnerable_apps,
                       scanned |-> Len(cached_apps)], now)
       IN  /\ cve_cache' = st.cc
           /\ lookup_cache' = st.lc
           /\ vulnerable_apps' = st.vulnerable_apps
    /\ s_pc' = "save_scan_result raised"
    /\ UNCHANGED <<now, ticks, stored, ret, tx_pc, tx, s_apps, cached_apps, to_query,
                   scan_history, scans, s_hits>>
    /\ UNCHANGED <<valvars, batchvars, pacevars>>

\* an installation has at most three applications to ask about, one batch:
\* the scheduler's sleep between batches does not occur
ScanNext ==
    \/ \E d \in TickSteps : ScanTick(d)
    \/ ScanNoApps
    \/ StartScan
    \/ StartBatch
    \/ \E i \in 1..Len(Discoverable) : Resolve(i, ResponseKinds)
    \/ FinishBatch
    \/ FinishScan
    \/ \E j \in 1..Len(Discoverable) : CacheWriteFails(j)
    \/ SummaryFails

SpecScan == ScanInit /\ [][ScanNext]_vars

\* the applications of the installation
Installed_apps == { s_apps[i] : i \in 1..Len(s_apps) }

\* the VulnerableApp entries a completed scan reported
Reported(k) == { scans[k].result.vulnerable_apps[i] :
                   i \in 1..Len(scans[k].result.vulnerable_apps) }

\* C8: an application with an entry the cache returns when a scan starts is
\* not fetched by that scan and its cached records are what the scan
\* reports; and a scan that follows another of the same applications by
\* less than the TTL sends no request and returns the records the first
\* returned.
C8_WarmCache ==
    \A k \in 1..Len(scans) :
        /\ \A h \in 1..Len(scans[k].hits) :
               /\ scans[k].hits[h].app \notin scans[k].requested
               /\ scans[k].hits[h].cves # <<>> =>
                      VulnerableApp(scans[k].hits[h].app, scans[k].hits[h].cves) \in Reported(k)
        /\ (k > 1 /\ scans[k].result.timestamp - scans[k - 1].result.timestamp < SevenDays) =>
               /\ scans[k].requested = {}
               /\ scans[k].result.vulnerable_apps = scans[k - 1].result.vulnerable_apps

\* C9: an application of the installation whose lower-cased name is not a
\* key of APP_NAME_MAP has no known CPE; no request is sent for it, in the
\* scan under way or in any completed one; once a scan has completed, the
\* cache tables hold its key with no record, and at the moment of
\* completion get_cached_cves returns the empty list for it.
C9_UnknownIdentity ==
    \A a \in Installed_apps :
        APP_NAME_MAP_get(Lower(a.name)) = NoneV =>
            /\ ~has_known_cpe(a)
            /\ \A i \in requested : b_apps[i] # a
            /\ \A k \in 1..Len(scans) : a \notin scans[k].requested
            /\ (Len(scans) > 0 /\ s_pc = "idle") =>
                   /\ \E row \in lookup_cache : SameKey(row, Lower(a.name), a.version)
                   /\ \A j \in 1..Len(cve_cache) :
                          ~SameKey(cve_cache[j], Lower(a.name), a.version)
            /\ (Len(scans) > 0 /\ s_pc = "idle" /\ now = scans[Len(scans)].result.timestamp) =>
                   get_cached_cves(cve_cache, lookup_cache, a.name, a.version, now) = Some(<<>>)

\* two scans of an installation with the unknown application and a known
\* one have completed: the known one was asked about, the unknown one is
\* in the cache with the empty list
C9_Witness ==
    /\ s_pc = "idle"
    /\ Len(scans) = 2
    /\ now = scans[2].result.timestamp
    /\ scans[1].requested # {}
    /\ \E a \in Installed_apps :
           /\ a.name = N_UnknownTool
           /\ ~has_known_cpe(a)
           /\ get_cached_cves(cve_cache, lookup_cache, a.name, a.version, now) = Some(<<>>)
\* C16 (as claimed): a cache store that fails during a scan does not fail
\* the scan: the exception of cache_cves never leaves _run_scan, which goes
\* on to return its result.
C16_CacheWriteFailureTolerated == s_pc # "cache_cves raised"

\* the scans that got past the search for applications
SavedScans == { k \in 1..Len(scans) : scans[k].result.total_apps > 0 }

\* C17 (as claimed): a failure of save_scan_result does not fail the scan,
\* whose exception never leaves _run_scan; every scan that returns with
\* applications has appended exactly one row to scan_history.
C17_SummaryBestEffort ==
    /\ s_pc # "save_scan_result raised"
    /\ Len(scan_history) = Cardinality(SavedScans)

----------------------------------------------------------------------------
(* VulnerableApp.max_severity on lists of records of every severity. *)

\* a record of the given severity
RecordOf(sev) == CVERecord("CVE-S", "", sev, NoneV, NoneV, NoneV, <<>>, <<>>)

SeverityRecords == { RecordOf(sev) : sev \in SeverityValues }

SeverityInit ==
    /\ val_in = [app |-> InstalledApp(S_curl, <<>>), raw_vulns |-> <<>>]
    /\ val_out = NoOut
    /\ fetch = NoFetch
    /\ \E cves \in SeqsUpTo(SeverityRecords, MaxSevs) : call = [cves |-> cves, out |-> NoneV]

\* VulnerableApp(app, cves).max_severity is read
MaxSeverity ==
    /\ call.out = NoneV
    /\ call' = [call EXCEPT !.out = Some(max_severity(call.cves))]
    /\ UNCHANGED <<val_in, val_out, fetch>>
    /\ UNCHANGED <<dbvars, batchvars, pacevars, scanvars>>

SeverityNext == MaxSeverity

SeveritiesInit == DbInit /\ SeverityInit /\ BatchIdle /\ ScanIdle

SpecSeverity == SeveritiesInit /\ [][SeverityNext]_vars

\* the rank the claim gives a severity
ClaimedRank(sev) ==
    IF sev = "CRITICAL" THEN 4
    ELSE IF sev = "HIGH" THEN 3
    ELSE IF sev = "MEDIUM" THEN 2
    ELSE IF sev = "LOW" THEN 1
    ELSE 0

\* C23: for a non-empty list max_severity returns a severity that occurs in
\* the list and whose rank (NONE/UNKNOWN 0 < LOW 1 < MEDIUM 2 < HIGH 3 <
\* CRITICAL 4) is at least the rank of every record; for the empty list it
\* returns NONE.
C23_WorstCaseSeverity ==
    call.out # NoneV =>
        IF call.cves = <<>> THEN call.out = Some("NONE")
        ELSE /\ \E i \in 1..Len(call.cves) : call.cves[i].severity = call.out[1]
             /\ \A i \in 1..Len(call.cves) :
                    ClaimedRank(call.out[1]) >= ClaimedRank(call.cves[i].severity)

\* the worst record is the last of three, after a record of rank 0
C23_Witness ==
    /\ call.out = Some("CRITICAL")
    /\ Len(call.cves) = 3
    /\ call.cves[1].severity = "UNKNOWN"
    /\ call.cves[2].severity = "HIGH"
    /\ call.cves[3].severity = "CRITICAL"

----------------------------------------------------------------------------
(* The parallelism of search_cves_batch. *)

\* the positions whose fetch has been scheduled and has not resolved
FetchesInFlight == { i \in 1..Len(b_apps) : task[i].st = "in_flight" }

\* the batch size the claim gives a client
ClaimedBatchSize == IF api_key # NoneV THEN 40 ELSE 5

ClaimedBatch(i) == (i - 1) \div ClaimedBatchSize

\* C24: at every moment the number of fetches in flight is at most the batch
\* size (40 with a credential, 5 without) and all of them belong to one
\* batch; one step schedules at most a batch size of fetches, all of one
\* batch; a fetch that was scheduled is never scheduled again, and when
\* search_cves_batch returns every application has been fetched.
C24_BoundedParallelism ==
    /\ [](/\ Cardinality(FetchesInFlight) <= ClaimedBatchSize
          /\ \A i, j \in FetchesInFlight : ClaimedBatch(i) = ClaimedBatch(j)
          /\ b_pc = "done" => \A i \in 1..Len(b_apps) : Resolved(task[i]))
    /\ [][LET begun == { i \in 1..Len(b_apps) :
                            task[i].st = "pending" /\ task'[i].st # "pending" }
          IN  /\ Cardinality(begun) <= ClaimedBatchSize
              /\ \A i, j \in begun : ClaimedBatch(i) = ClaimedBatch(j)
              /\ \A i \in begun, j \in FetchesInFlight : ClaimedBatch(i) = ClaimedBatch(j)
              /\ \A i \in 1..Len(b_apps) :
                     /\ task[i].st # "pending" => task'[i].st # "pending"
                     /\ Resolved(task[i]) => task'[i] = task[i]]_vars

\* a full second batch is in flight, without a credential, after the first
\* has resolved
C24_Witness ==
    /\ api_key = NoneV
    /\ batch_start = 5
    /\ FetchesInFlight = 6..10
    /\ \A i \in 1..5 : Resolved(task[i])
    /\ Len(b_apps) = 11 /\ task[11].st = "pending"

----------------------------------------------------------------------------
(* The validator on rules with range boundaries. *)

\* a vulnerable rule of the checked vendor/product that carries a boundary,
\* none of its boundaries date-shaped
RangeRule(m) ==
    /\ ForChecked(m)
    /\ m.vulnerable = Some(TRUE)
    /\ \E i \in 1..4 : m.boundaries[i] # NoneV
    /\ ~CarriesDate(m)

\* C25 (as claimed): an entry that has a vulnerable rule of the checked
\* vendor/product carrying range boundaries, none of them date-shaped, is
\* accepted, whatever the version the rule pins.
C25_RangeRuleAccepts ==
    (val_out.done /\ \E i \in 1..Len(TestRules) : RangeRule(TestRules[i])) => Kept

\* C25 (amended): when the first vulnerable rule of the checked
\* vendor/product, in scan order, that pins the installed version or the
\* wildcard is a wildcard rule carrying range boundaries, none of them
\* date-shaped, the entry is accepted, whatever the boundaries and the
\* installed version; and when no rule pins the installed version or the
\* wildcard, an entry with a vulnerable rule that pins another version and
\* carries such boundaries is accepted exactly when every rule of the checked
\* vendor/product is marked vulnerable.
C25_FirstRangeRuleAccepts ==
    val_out.done =>
        /\ (\E i \in 1..Len(TestRules) :
                /\ FirstDeciding(i)
                /\ Pinned(TestRules[i]) = <<"*">>
                /\ RangeRule(TestRules[i])) => Kept
        /\ (/\ \A i \in 1..Len(TestRules) : ~Deciding(TestRules[i])
            /\ \E i \in 1..Len(TestRules) : RangeRule(TestRules[i]))
               => (Kept <=> \A i \in 1..Len(TestRules) :
                               ForChecked(TestRules[i]) => IsVulnerable(TestRules[i]))

\* C25's case: installed 8.5.0, a rule marked not vulnerable followed by a
\* wildcard rule with versionEndExcluding 7.0; the entry is kept
C25_Witness ==
    /\ val_out.done
    /\ Installed = <<"8", ".", "5", ".", "0">>
    /\ Len(TestRules) = 2
    /\ MarkedNotVulnerable(TestRules[1])
    /\ FirstDeciding(2)
    /\ RangeRule(TestRules[2])
    /\ TestRules[2].boundaries[4] = Some(<<"7", ".", "0">>)
    /\ Kept

----------------------------------------------------------------------------
(* What a lookup leaves in the cache. *)

\* the record rows of key k
RecordRows(cc, k) == SelectSeq(cc, LAMBDA r : SameKey(r, k[1], k[2]))

\* the entry last stored under key k is older than the TTL
ExpiredEntry(k) == stored[k] # NoneV /\ Expired(stored[k][1].at, now)

\* C26: a lookup, whether it finds a valid entry, an expired entry or no
\* entry, leaves both tables of the cache unchanged; the rows of an expired
\* entry stay as they are in every step that is not a store of their key,
\* and a store of their key leaves none of them.
C26_LookupChangesNothing ==
    [][/\ ret'.op = "lookup" =>
              (cve_cache' = cve_cache /\ lookup_cache' = lookup_cache)
       /\ \A k \in CacheKeys :
              ExpiredEntry(k) =>
                  IF stored'[k] = stored[k]
                  THEN /\ RecordRows(cve_cache', k) = RecordRows(cve_cache, k)
                       /\ TimestampRows(lookup_cache', k) = TimestampRows(lookup_cache, k)
                  ELSE /\ \A i \in 1..Len(RecordRows(cve_cache', k)) :
                              RecordRows(cve_cache', k)[i].cached_at
                                  # isoformat(stored[k][1].at)
                       /\ \A row \in TimestampRows(lookup_cache', k) :
                              row.cached_at # isoformat(stored[k][1].at)]_vars

\* a lookup of an expired entry reported it not found and its rows are
\* still in both tables
C26_Witness ==
    /\ LookedUpStored
    /\ ExpiredEntry(RetKey)
    /\ ret.value = NoneV
    /\ RecordRows(cve_cache, RetKey) # <<>>
    /\ TimestampRows(lookup_cache, RetKey) # {}

----------------------------------------------------------------------------
(* The validator and the order of the rules. *)

\* the orderings of a list of rules
Reorderings(rules) ==
    { AsList([i \in 1..Len(rules) |-> rules[p[i]]], Len(rules)) :
        p \in Permutations(1..Len(rules)) }

\* C27 (as claimed): for a fixed set of match rules, vendor/product and
\* installed version, the validator answers the same for every ordering of
\* the rules.
C27_OrderIndependent ==
    (val_out.done /\ TestRules # <<>>) =>
        \A rules \in Reorderings(TestRules) :
            Kept <=> ScanRules(rules, CheckedVendor, CheckedProduct, Installed, FALSE, FALSE)

----------------------------------------------------------------------------
(* What a scan caches for a query that failed. *)

\* the step in which _run_scan stores the results of search_cves_batch
StoresBatchResults == s_pc = "querying" /\ s_pc' = "idle"

\* C28 (as claimed): when a scan has stored its results, the cache holds the
\* empty list for a queried application only if the feed answered its
\* request with HTTP 200 in this scan; for an application whose fetch ended
\* otherwise (timeout, 403, another status, an exception) nothing was
\* written, so that the cache does not know it and the next scan queries it
\* again.
C28_FailedQueryNotCached ==
    [][StoresBatchResults =>
          \A i \in 1..Len(to_query) :
              LET cached == get_cached_cves(cve_cache', lookup_cache', to_query[i].name,
                                            to_query[i].version, now')
              IN  /\ cached = Some(<<>>) => task[i].answer = "200"
                  /\ task[i].answer # "200" => cached = NoneV]_vars

====
